---- MODULE Spec2Model ----
(***************************************************************************)
(* A model of the dependency injection container of                        *)
(* src/dependency_injection.py: ServiceContainer (registration table,      *)
(* singleton cache, thread-keyed scoped cache, interceptor list, one       *)
(* re-entrant lock) and DependencyScope (a handle with a private cache).   *)
(* Threads call the public operations; a resolve runs as a stack of        *)
(* _resolve_internal frames, one step per frame event.                     *)
(***************************************************************************)
EXTENDS Integers, Sequences, FiniteSets, TLC

(***************************************************************************)
(* Bounds of the model.                                                    *)
(***************************************************************************)
MaxOps == 3            \* resolve-like calls started in one behaviour
MaxRegs == 1           \* register_* calls made after the setup
MaxInterceptors == 2   \* add_interceptor calls
MaxScopes == 2         \* create_scope calls
MaxAttackerDice == 3   \* values in the attacker's roll
MaxDefenderDice == 2   \* values in the defender's roll
MaxFace == 3           \* the largest value of a die in a roll
MaxCount == 2          \* the largest count given to a DiceConfiguration
MaxSides == 3          \* the largest sides given to a DiceConfiguration
MaxMetrics == 3        \* add_metric calls
MaxTime == 2           \* minutes the clock advances
MaxIterations == 4     \* the largest small SimulationConfiguration.iterations
MaxOver == 2           \* how far iterations goes past the battle_history limit
MaxObservers == 2      \* observers added to the engine
MaxElapsed == 1        \* the largest execution_time_seconds measured
MaxCalls == 4          \* start() and stop() calls on a MetricsReporter

(***************************************************************************)
(* Values.                                                                 *)
(***************************************************************************)
None == "None"          \* Python's None
Empty == "Empty"        \* inspect.Parameter.empty

\* A constructor argument that is not passed: left to the parameter's
\* default, or missing (the call then raises TypeError).
DEFAULT == [arg |-> "default"]
MISSING == [arg |-> "missing"]

\* The n-th object constructed.
Obj(n) == "obj" \o ToString(n)

Threads == {"t1", "t2"}
Types == {"A", "B", "C", "D"}
Names == {None, "", "n"}

SINGLETON == "singleton"
TRANSIENT == "transient"
SCOPED == "scoped"
LifecycleScope == {SINGLETON, TRANSIENT, SCOPED}

\* _get_key: "module.Type", and ":name" appended when the name is truthy
\* (None and the empty string add nothing).
GetKey(service_type, name) ==
    IF name = None \/ name = "" THEN <<service_type, None>>
    ELSE <<service_type, name>>

AllKeys == {GetKey(ty, nm) : ty \in Types, nm \in Names}

\* DependencyRegistration, with the dataclass's defaults.
DependencyRegistration(service_type, implementation_type, factory, instance, lifecycle, name) ==
    [service_type |-> service_type, implementation_type |-> implementation_type,
     factory |-> factory, instance |-> instance, lifecycle |-> lifecycle,
     name |-> name]

\* The exception classes and the subclass test of an except clause:
\* CircularDependencyException derives from DependencyResolutionException;
\* "Raw" is any other Exception (raised by a provider, a constructor or an
\* interceptor).
DRE == "DependencyResolutionException"
CDE == "CircularDependencyException"
Raw == "Exception"

IsDependencyResolutionException(e) == e.cls \in {DRE, CDE}

Exc(cls, msg) == [cls |-> cls, msg |-> msg]

\* A resolved value: the object and the markers the interceptors put on it.
Val(obj) == [obj |-> obj, marks |-> <<>>]

\* The result of a finished frame or call: a returned value, a raised
\* exception, try_resolve's None, or nothing pending.
Ret(v) == [kind |-> "ret", v |-> v]
Raise(e) == [kind |-> "exc", v |-> e]
ReturnNone == [kind |-> "absent", v |-> Val(None)]
NoPend == [kind |-> "none", v |-> Val(None)]

\* A dict, and its operations.
EmptyDict == <<>>
In(k, dict) == k \in DOMAIN dict
Put(dict, k, v) == [x \in DOMAIN dict \cup {k} |-> IF x = k THEN v ELSE dict[x]]

(***************************************************************************)
(* The programs run against the container: the classes they define (the    *)
(* signature of each __init__ after self, and whether it raises), the      *)
(* register_* calls of their setup, the resolving calls they make (menu),  *)
(* the register_* calls they make later, their threads, the number of      *)
(* scopes they create and the interceptors they add.                       *)
(***************************************************************************)
Param(name, annotation, has_default) ==
    [name |-> name, annotation |-> annotation, has_default |-> has_default]

Call(call, service_type, implementation_type, factory, instance, lifecycle, name) ==
    [call |-> call, service_type |-> service_type,
     implementation_type |-> implementation_type, factory |-> factory,
     instance |-> instance, lifecycle |-> lifecycle, name |-> name]

RegSingleton(ty) == Call("register_singleton", ty, None, None, None, SINGLETON, None)
RegTransient(ty) == Call("register_transient", ty, None, None, None, TRANSIENT, None)
RegScoped(ty) == Call("register_scoped", ty, None, None, None, SCOPED, None)
RegInstance(ty, inst) == Call("register_instance", ty, None, None, inst, SINGLETON, None)
RegFactory(ty, f, lc) == Call("register_factory", ty, None, f, None, lc, None)

NoParams == [ty \in Types |-> <<>>]

Both == {"t1", "t2"}
One == {"t1"}

\* A singleton without dependencies, resolved by two threads while it is
\* registered again.
ProgSingleton ==
    [sig |-> NoParams, raises |-> {},
     setup |-> <<RegSingleton("A")>>,
     menu |-> {<<"resolve", "A", None>>},
     later |-> {RegInstance("A", "ext1"), RegTransient("A")},
     threads |-> Both, scopes |-> 0, interceptors |-> {}]

\* A transient class and a transient provider, resolved by two threads.
ProgTransient ==
    [sig |-> NoParams, raises |-> {},
     setup |-> <<RegTransient("A"), RegFactory("B", "fresh", TRANSIENT)>>,
     menu |-> {<<"resolve", "A", None>>, <<"resolve", "B", None>>},
     later |-> {},
     threads |-> Both, scopes |-> 0, interceptors |-> {}]

\* A scoped class without dependencies, resolved by one thread through its
\* scope handles and directly.
ProgScoped ==
    [sig |-> NoParams, raises |-> {},
     setup |-> <<RegScoped("C")>>,
     menu |-> {<<"resolve", "C", None>>, <<"scope_resolve", "C", None>>},
     later |-> {},
     threads |-> One, scopes |-> 3, interceptors |-> {}]

\* A scoped class resolved by two threads through one shared scope handle.
ProgSharedScope ==
    [sig |-> NoParams, raises |-> {},
     setup |-> <<RegScoped("C")>>,
     menu |-> {<<"scope_resolve", "C", None>>},
     later |-> {},
     threads |-> Both, scopes |-> 1, interceptors |-> {}]

\* A needs B and B needs A.
ProgCycle2 ==
    [sig |-> [NoParams EXCEPT !["A"] = <<Param("b", "B", FALSE)>>,
                              !["B"] = <<Param("a", "A", FALSE)>>],
     raises |-> {},
     setup |-> <<RegTransient("A"), RegSingleton("B")>>,
     menu |-> {<<"resolve", "A", None>>, <<"resolve", "B", None>>,
               <<"try_resolve", "A", None>>},
     later |-> {},
     threads |-> One, scopes |-> 0, interceptors |-> {"f"}]

\* A needs B, B needs C, C needs A.
ProgCycle3 ==
    [sig |-> [NoParams EXCEPT !["A"] = <<Param("b", "B", FALSE)>>,
                              !["B"] = <<Param("c", "C", FALSE)>>,
                              !["C"] = <<Param("a", "A", FALSE)>>],
     raises |-> {},
     setup |-> <<RegTransient("A"), RegTransient("B"), RegScoped("C")>>,
     menu |-> {<<"resolve", "A", None>>, <<"try_resolve", "C", None>>},
     later |-> {},
     threads |-> One, scopes |-> 0, interceptors |-> {}]

\* A(b: B, d: D = default) with D unregistered, as the engine of src/risk.py
\* (config_path: str = "config.yaml") is resolved at startup; C(d: D) needs
\* the unregistered D and has no default for it.
ProgOptional ==
    [sig |-> [NoParams EXCEPT !["A"] = <<Param("b", "B", FALSE), Param("d", "D", TRUE)>>,
                              !["C"] = <<Param("d", "D", FALSE)>>],
     raises |-> {},
     setup |-> <<RegTransient("A"), RegSingleton("B"), RegTransient("C")>>,
     menu |-> {<<"resolve", "A", None>>, <<"resolve", "C", None>>,
               <<"resolve", "D", None>>, <<"try_resolve", "D", None>>},
     later |-> {RegTransient("D")},
     threads |-> One, scopes |-> 0, interceptors |-> {}]

\* A needs B whose constructor raises; C is a provider that raises.
ProgFailing ==
    [sig |-> [NoParams EXCEPT !["A"] = <<Param("b", "B", FALSE)>>],
     raises |-> {"B"},
     setup |-> <<RegSingleton("A"), RegTransient("B"),
                 RegFactory("C", "raises", SINGLETON)>>,
     menu |-> {<<"resolve", "A", None>>, <<"try_resolve", "A", None>>,
               <<"resolve", "C", None>>, <<"try_resolve", "C", None>>},
     later |-> {},
     threads |-> One, scopes |-> 0, interceptors |-> {}]

\* A singleton resolved directly and through one scope handle while the
\* interceptors f and g are added.
ProgIntercepted ==
    [sig |-> NoParams, raises |-> {},
     setup |-> <<RegSingleton("A")>>,
     menu |-> {<<"resolve", "A", None>>, <<"scope_resolve", "A", None>>},
     later |-> {},
     threads |-> One, scopes |-> 1, interceptors |-> {"f", "g"}]

\* The transient A(b: B) with the singleton B, resolved by two threads, as
\* test_dependency_resolution does on one.
ProgWiring ==
    [sig |-> [NoParams EXCEPT !["A"] = <<Param("b", "B", FALSE)>>],
     raises |-> {},
     setup |-> <<RegTransient("A"), RegSingleton("B")>>,
     menu |-> {<<"resolve", "A", None>>},
     later |-> {},
     threads |-> Both, scopes |-> 0, interceptors |-> {}]

\* A(b: B, c: C): the singleton B is resolved before the unregistered C fails.
ProgPartial ==
    [sig |-> [NoParams EXCEPT !["A"] = <<Param("b", "B", FALSE), Param("c", "C", FALSE)>>],
     raises |-> {},
     setup |-> <<RegTransient("A"), RegSingleton("B")>>,
     menu |-> {<<"resolve", "A", None>>, <<"resolve", "B", None>>},
     later |-> {},
     threads |-> One, scopes |-> 0, interceptors |-> {}]

\* A needs B and B needs A, but B's parameter has a default.
ProgCycleDefault ==
    [sig |-> [NoParams EXCEPT !["A"] = <<Param("b", "B", FALSE)>>,
                              !["B"] = <<Param("a", "A", TRUE)>>],
     raises |-> {},
     setup |-> <<RegTransient("A"), RegTransient("B")>>,
     menu |-> {<<"resolve", "A", None>>, <<"resolve", "B", None>>},
     later |-> {},
     threads |-> One, scopes |-> 0, interceptors |-> {}]

\* One type registered without a name and under the name "n", then under
\* the empty name.
ProgNamed ==
    [sig |-> NoParams, raises |-> {},
     setup |-> <<Call("register_singleton", "A", None, None, None, SINGLETON, None),
                 Call("register_singleton", "A", None, None, None, SINGLETON, "n")>>,
     menu |-> {<<"resolve", "A", None>>, <<"resolve", "A", "n">>,
               <<"resolve", "A", "">>},
     later |-> {Call("register_transient", "A", None, None, None, TRANSIENT, "")},
     threads |-> One, scopes |-> 0, interceptors |-> {}]

\* A scoped and a transient class and an unregistered type resolved through
\* two scope handles, with an instance registered for A.
ProgScopeUse ==
    [sig |-> NoParams, raises |-> {},
     setup |-> <<RegScoped("C"), RegTransient("B"), RegInstance("A", "ext1")>>,
     menu |-> {<<"scope_resolve", "C", None>>, <<"scope_resolve", "B", None>>,
               <<"scope_resolve", "D", None>>},
     later |-> {},
     threads |-> One, scopes |-> 2, interceptors |-> {}]

\* An instance registered for A, then another instance or the class itself.
ProgFixed ==
    [sig |-> NoParams, raises |-> {},
     setup |-> <<RegInstance("A", "ext1")>>,
     menu |-> {<<"resolve", "A", None>>, <<"try_resolve", "A", None>>},
     later |-> {RegInstance("A", "ext2"), RegSingleton("A")},
     threads |-> One, scopes |-> 0, interceptors |-> {"f"}]

\* A(b: B = default) with B registered and B's constructor raising.
ProgOptionalFailing ==
    [sig |-> [NoParams EXCEPT !["A"] = <<Param("b", "B", TRUE)>>],
     raises |-> {"B"},
     setup |-> <<RegTransient("A"), RegTransient("B")>>,
     menu |-> {<<"resolve", "A", None>>},
     later |-> {},
     threads |-> One, scopes |-> 0, interceptors |-> {}]

\* Two singletons that do not depend on each other, first resolved by two
\* threads.
ProgUnrelated ==
    [sig |-> NoParams, raises |-> {},
     setup |-> <<RegSingleton("A"), RegSingleton("B")>>,
     menu |-> {<<"resolve", "A", None>>, <<"resolve", "B", None>>},
     later |-> {},
     threads |-> Both, scopes |-> 0, interceptors |-> {}]

\* A needs B and C, and both need D: an acyclic graph in which D is reached
\* along two sibling branches.
ProgDiamond ==
    [sig |-> [NoParams EXCEPT !["A"] = <<Param("b", "B", FALSE), Param("c", "C", FALSE)>>,
                              !["B"] = <<Param("d", "D", FALSE)>>,
                              !["C"] = <<Param("d", "D", FALSE)>>],
     raises |-> {},
     setup |-> <<RegTransient("A"), RegTransient("B"), RegTransient("C"),
                 RegSingleton("D")>>,
     menu |-> {<<"resolve", "A", None>>},
     later |-> {},
     threads |-> One, scopes |-> 0, interceptors |-> {}]

\* A singleton and a scoped class resolved while an interceptor is added
\* that raises the first time it is called.
ProgFlaky ==
    [sig |-> NoParams, raises |-> {},
     setup |-> <<RegSingleton("A"), RegScoped("C")>>,
     menu |-> {<<"resolve", "A", None>>, <<"resolve", "C", None>>},
     later |-> {},
     threads |-> One, scopes |-> 0, interceptors |-> {"once"}]

ProgramNames == {"singleton", "transient", "scoped", "shared_scope", "cycle2",
                 "cycle3", "optional", "failing", "intercepted", "wiring",
                 "partial", "cycle_default", "named", "scope_use", "fixed",
                 "optional_failing", "unrelated", "diamond",
                 "flaky"}

ProgramNamed(name) ==
    CASE name = "singleton" -> ProgSingleton
      [] name = "transient" -> ProgTransient
      [] name = "scoped" -> ProgScoped
      [] name = "shared_scope" -> ProgSharedScope
      [] name = "cycle2" -> ProgCycle2
      [] name = "cycle3" -> ProgCycle3
      [] name = "optional" -> ProgOptional
      [] name = "failing" -> ProgFailing
      [] name = "intercepted" -> ProgIntercepted
      [] name = "wiring" -> ProgWiring
      [] name = "partial" -> ProgPartial
      [] name = "cycle_default" -> ProgCycleDefault
      [] name = "named" -> ProgNamed
      [] name = "scope_use" -> ProgScopeUse
      [] name = "fixed" -> ProgFixed
      [] name = "optional_failing" -> ProgOptionalFailing
      [] name = "unrelated" -> ProgUnrelated
      [] name = "diamond" -> ProgDiamond
      [] name = "flaky" -> ProgFlaky

Interceptors == {"f", "g", "bad", "once"}

VARIABLES
    prog,               \* the program being run
    registrations,      \* ServiceContainer._registrations
    singletons,         \* ServiceContainer._singletons
    scoped_instances,   \* ServiceContainer._scoped_instances, by thread id
    interceptors,       \* ServiceContainer._interceptors
    lockOwner,          \* ServiceContainer._lock: the owning thread
    lockCount,          \* ServiceContainer._lock: its recursion level
    scopes,             \* the DependencyScope objects created so far
    op,                 \* the public call each thread is in
    stack,              \* each thread's _resolve_internal frames
    pend,               \* each thread's result on its way to the caller
    heap,               \* the objects constructed so far
    log,                \* the calls completed so far, in order
    attacker_roll,      \* resolve_battle: the attacker's DiceRoll.values
    defender_roll,      \* resolve_battle: the defender's DiceRoll.values
    sorting,            \* resolve_battle: the SortingStrategy passed
    battle_result,      \* resolve_battle: the BattleResult returned
    dice_args,          \* DiceConfiguration(...): the arguments passed
    dice_config,        \* DiceConfiguration(...): the object, or the error
    metrics_history,    \* MetricAggregator._metrics_history
    now,                \* datetime.now(), in minutes
    added,              \* the metrics passed to add_metric so far, in order
    configuration,      \* EnterpriseRiskSimulationEngine.configuration
    observers,          \* EnterpriseRiskSimulationEngine.observers
    sim_pc,             \* where run_simulation is
    total_battles,      \* result.metrics.total_battles
    battle_history,     \* result.battle_history
    total_batches,      \* _execute_simulation_batches: total_batches
    batch_num,          \* _execute_simulation_batches: batch_num
    current_iteration,  \* _execute_simulation_batches: current_iteration
    iterations_in_batch, \* _execute_simulation_batches: iterations_in_batch
    in_batch,           \* the inner loop's position in range(iterations_in_batch)
    executed,           \* the battles _execute_single_battle has returned
    events,             \* the observer callbacks made so far, in order
    running,            \* MetricsReporter.running
    thread,             \* MetricsReporter.thread: the index of the Thread, 0 for None
    loops,              \* where each _report_loop thread created so far is
    reporter_calls,     \* the start() and stop() calls made so far, in order
    joining             \* stop() is in self.thread.join(timeout=1)

Program == ProgramNamed(prog)

vars == <<prog, registrations, singletons, scoped_instances, interceptors,
          lockOwner, lockCount, scopes, op, stack, pend, heap, log>>

container == <<registrations, singletons, scoped_instances, interceptors>>

\* The state of the other modules: strategies.py, models.py, dashboard.py.
battle_vars == <<attacker_roll, defender_roll, sorting, battle_result>>
dice_vars == <<dice_args, dice_config>>
metric_vars == <<metrics_history, now, added>>
simulation_vars == <<configuration, observers, sim_pc, total_battles, battle_history,
                     total_batches, batch_num, current_iteration, iterations_in_batch,
                     in_batch, executed, events>>
reporter_vars == <<running, thread, loops, reporter_calls, joining>>
other_modules == <<battle_vars, dice_vars, metric_vars, simulation_vars, reporter_vars>>

(***************************************************************************)
(* Registration.                                                           *)
(***************************************************************************)
\* Register with a registered key left as it is.
RegisterKeepFirst(regs, service_type, implementation_type, lifecycle, name) ==
    IF In(GetKey(service_type, name), regs) THEN regs
    ELSE Put(regs, GetKey(service_type, name),
             DependencyRegistration(service_type,
                 IF implementation_type # None THEN implementation_type ELSE service_type,
                 None, None, lifecycle, name))

\* _register: the implementation type defaults to the service type; the
\* table entry at the key is overwritten.
Register(regs, service_type, implementation_type, lifecycle, name) ==
    Put(regs, GetKey(service_type, name),
        DependencyRegistration(service_type,
            IF implementation_type # None THEN implementation_type ELSE service_type,
            None, None, lifecycle, name))

\* register_instance: the table entry, always a singleton, ...
RegisterInstance(regs, service_type, instance, name) ==
    Put(regs, GetKey(service_type, name),
        DependencyRegistration(service_type, None, None, instance, SINGLETON, name))

\* RegisterInstanceCache without the write of line 90.
RegisterInstanceCacheSkipped(sing, service_type, instance, name) == sing

\* ... and the instance written to the singleton cache under the same lock.
RegisterInstanceCache(sing, service_type, instance, name) ==
    Put(sing, GetKey(service_type, name), instance)

\* register_factory.
RegisterFactory(regs, service_type, factory, lifecycle, name) ==
    Put(regs, GetKey(service_type, name),
        DependencyRegistration(service_type, None, factory, None, lifecycle, name))

\* The table and the singleton cache after one register_* call.
RegistrationsAfter(regs, c) ==
    IF c.call = "register_instance"
    THEN RegisterInstance(regs, c.service_type, c.instance, c.name)
    ELSE IF c.call = "register_factory"
    THEN RegisterFactory(regs, c.service_type, c.factory, c.lifecycle, c.name)
    ELSE Register(regs, c.service_type, c.implementation_type, c.lifecycle, c.name)

SingletonsAfter(sing, c) ==
    IF c.call = "register_instance"
    THEN RegisterInstanceCache(sing, c.service_type, c.instance, c.name)
    ELSE sing

\* is_registered, lines 124-125.
IsRegistered(regs, service_type, name) == In(GetKey(service_type, name), regs)

\* get_registrations, line 130: the values of the table (their order, that
\* of first insertion, is left out).
GetRegistrations(regs) == {regs[k] : k \in DOMAIN regs}

RECURSIVE SetupRegistrations(_, _)
SetupRegistrations(calls, n) ==
    IF n = 0 THEN EmptyDict
    ELSE RegistrationsAfter(SetupRegistrations(calls, n - 1), calls[n])

RECURSIVE SetupSingletons(_, _)
SetupSingletons(calls, n) ==
    IF n = 0 THEN EmptyDict
    ELSE SingletonsAfter(SetupSingletons(calls, n - 1), calls[n])

(***************************************************************************)
(* The state after ServiceContainer.__init__ and the program's setup.      *)
(***************************************************************************)
Idle == [kind |-> "idle", service_type |-> None, name |-> None, scope |-> 0]

\* No battle has been resolved.
NoBattle ==
    /\ attacker_roll = <<>>
    /\ defender_roll = <<>>
    /\ sorting = None
    /\ battle_result = <<>>

\* No DiceConfiguration has been asked for.
NoDice ==
    /\ dice_args = <<>>
    /\ dice_config = <<>>

\* MetricAggregator.__init__, line 44, at time 0.
NoMetrics ==
    /\ metrics_history = <<>>
    /\ now = 0
    /\ added = <<>>

\* EnterpriseRiskSimulationEngine before a configuration is loaded, an observer
\* is added and run_simulation is called.
NoSimulation ==
    /\ configuration = <<>>
    /\ observers = <<>>
    /\ sim_pc = "idle"
    /\ total_battles = 0
    /\ battle_history = <<>>
    /\ total_batches = 0
    /\ batch_num = 0
    /\ current_iteration = 0
    /\ iterations_in_batch = 0
    /\ in_batch = 0
    /\ executed = 0
    /\ events = <<>>

\* MetricsReporter.__init__, lines 291-296.
NoReporter ==
    /\ running = FALSE
    /\ thread = 0
    /\ loops = <<>>
    /\ reporter_calls = <<>>
    /\ joining = FALSE

\* ServiceContainer.__init__ and the program's setup.
InitContainer ==
    /\ registrations = SetupRegistrations(Program.setup, Len(Program.setup))
    /\ singletons = SetupSingletons(Program.setup, Len(Program.setup))
    /\ scoped_instances = EmptyDict
    /\ interceptors = <<>>
    /\ lockOwner = None
    /\ lockCount = 0
    /\ scopes = <<>>
    /\ op = [t \in Threads |-> Idle]
    /\ stack = [t \in Threads |-> <<>>]
    /\ pend = [t \in Threads |-> NoPend]
    /\ heap = <<>>
    /\ log = <<>>

\* The container as one program's setup leaves it, for the behaviours in
\* which no call is made on it.
ContainerUnused ==
    /\ prog = "singleton"
    /\ InitContainer

Init ==
    /\ prog \in ProgramNames
    /\ InitContainer
    /\ NoBattle
    /\ NoDice
    /\ NoMetrics
    /\ NoSimulation
    /\ NoReporter

(***************************************************************************)
(* Helpers of the resolver.                                                *)
(***************************************************************************)
\* Frame with one path for the whole container: the keys in flight on any
\* thread are on the path of a new frame.
FrameSharedPath(service_type, name, path) ==
    [service_type |-> service_type, name |-> name,
     key |-> GetKey(service_type, name),
     path |-> path \cup UNION {{stack[t][j].key :
                                    j \in {x \in 1 .. Len(stack[t]) :
                                              stack[t][x].pc # "enter"}} :
                                t \in Threads},
     pc |-> "enter", registration |-> [service_type |-> None], idx |-> 1,
     kwargs |-> <<>>]

\* One frame of _resolve_internal; the top of a thread's stack is its head.
\* pc: "enter" (line 160, before the lock), "params" (the loop of line 226),
\* "await" (inside the call of line 230), "construct" (about to invoke the
\* constructor or provider).  A frame past "enter" holds one level of the lock.
Frame(service_type, name, path) ==
    [service_type |-> service_type, name |-> name,
     key |-> GetKey(service_type, name), path |-> path, pc |-> "enter",
     registration |-> [service_type |-> None], idx |-> 1, kwargs |-> <<>>]

\* The orders in which a set, the resolution path, may be iterated.
Orderings(S) ==
    {o \in [1 .. Cardinality(S) -> S] : \A i, j \in 1 .. Cardinality(S) : o[i] = o[j] => i = j}

\* Line 163: the requested key is already on the path.
OnPath(key, path) == key \in path

\* Lines 164-165.
CircularDependency(order, key) ==
    Exc(CDE, <<"Circular dependency detected", order \o <<key>>>>)

\* Line 169.
NotRegistered(service_type) == Exc(DRE, <<"Service not registered", service_type>>)

\* Lines 185-186: the calling thread's dict is created on first use.
WithThreadDict(scoped, thread_id) ==
    IF In(thread_id, scoped) THEN scoped ELSE Put(scoped, thread_id, EmptyDict)

\* CacheOf with the transient branch reading the singleton cache.
CacheOfAnyLifecycle(lifecycle, sing, scoped, thread_id) ==
    IF lifecycle = SCOPED THEN scoped[thread_id] ELSE sing

\* Lines 174-198: the cache a lifecycle reads: the singleton cache, the
\* calling thread's dict, or none for a transient.
CacheOf(lifecycle, sing, scoped, thread_id) ==
    IF lifecycle = SINGLETON THEN sing
    ELSE IF lifecycle = SCOPED THEN scoped[thread_id]
    ELSE EmptyDict

\* Cached with every lookup a miss.
CachedNever(lifecycle, sing, scoped, thread_id, key) == FALSE

\* Lines 175 and 188: is the instance cached for this lifecycle?
Cached(lifecycle, sing, scoped, thread_id, key) ==
    In(key, CacheOf(lifecycle, sing, scoped, thread_id))

\* Lines 176 and 189.
CachedInstance(lifecycle, sing, scoped, thread_id, key) ==
    CacheOf(lifecycle, sing, scoped, thread_id)[key]

\* StoreSingleton without the write of line 179.
StoreSingletonSkipped(sing, lifecycle, key, instance) == sing

\* Line 179: a new singleton is written to the cache.
StoreSingleton(sing, lifecycle, key, instance) ==
    IF lifecycle = SINGLETON THEN Put(sing, key, instance) ELSE sing

\* Line 192: a new scoped instance is written to the calling thread's dict.
StoreScoped(scoped, lifecycle, thread_id, key, instance) ==
    IF lifecycle = SCOPED
    THEN Put(scoped, thread_id, Put(scoped[thread_id], key, instance))
    ELSE scoped

\* One interceptor: "f" and "g" return the instance with their marker added,
\* "bad" raises.
Interceptor(i, service_type, result) ==
    IF i \in {"bad", "once"} THEN Raise(Exc(Raw, <<"interceptor error", service_type>>))
    ELSE Ret([result EXCEPT !.marks = Append(@, i)])

\* _apply_interceptors: each interceptor gets the previous one's result.
RECURSIVE ApplyFrom(_, _, _, _)
ApplyFrom(chain, i, service_type, result) ==
    IF i > Len(chain) THEN Ret(result)
    ELSE LET r == Interceptor(chain[i], service_type, result)
         IN  IF r.kind = "exc" THEN r
             ELSE ApplyFrom(chain, i + 1, service_type, r.v)

\* The interceptors after one walk of _apply_interceptors: the first one
\* that raises ends the walk, and "once" has then raised its one time.
AfterInterception(chain) ==
    LET raising == {i \in 1 .. Len(chain) : chain[i] \in {"bad", "once"}}
    IN  IF raising = {} THEN chain
        ELSE LET first == CHOOSE i \in raising : \A j \in raising : i <= j
             IN  IF chain[first] = "once" THEN [chain EXCEPT ![first] = "spent"]
                 ELSE chain

\* ApplyInterceptors with the list walked from its end.
ApplyInterceptorsReversed(chain, service_type, instance) ==
    ApplyFrom([i \in 1 .. Len(chain) |-> chain[Len(chain) + 1 - i]], 1,
              service_type, Val(instance))

ApplyInterceptors(chain, service_type, instance) ==
    ApplyFrom(chain, 1, service_type, Val(instance))

\* _create_instance and the call of line 241: the registered instance, the
\* provider's result, or the constructor's; new is the object a successful
\* provider or constructor returns.
CreateInstance(reg, kwargs, raises, new) ==
    IF reg.instance # None THEN Ret(reg.instance)
    ELSE IF reg.factory # None
    THEN IF reg.factory = "raises"
         THEN Raise(Exc(Raw, <<"provider error", reg.service_type>>))
         ELSE Ret(new)
    ELSE IF reg.implementation_type = None
    THEN Raise(Exc(DRE, <<"No implementation", reg.service_type>>))
    ELSE IF reg.implementation_type \in raises
              \/ \E i \in 1 .. Len(kwargs) : kwargs[i] = MISSING
    THEN Raise(Exc(DRE, <<"Failed to create", reg.implementation_type,
                          <<"constructor error", reg.implementation_type>>>>))
    ELSE Ret(new)

\* DependencyFailure with the failed argument left out and the loop going on.
DependencyFailureArgumentSkipped(e, param, implementation_type) ==
    IF IsDependencyResolutionException(e)
    THEN Ret(IF param.has_default THEN DEFAULT ELSE MISSING)
    ELSE Raise(Exc(DRE, <<"Failed to create", implementation_type, e.msg>>))

\* DependencyFailure without the default test of line 233.
DependencyFailureNoDefault(e, param, implementation_type) ==
    IF IsDependencyResolutionException(e)
    THEN Raise(Exc(DRE, <<"Failed to create", implementation_type,
                          <<"Cannot resolve parameter", param.name,
                            param.annotation>>>>))
    ELSE Raise(Exc(DRE, <<"Failed to create", implementation_type, e.msg>>))

\* Lines 232-244: what the owner does with a failed dependency.  A
\* DependencyResolutionException (of any subclass) is dropped when the
\* parameter has a default; anything else leaves as a new
\* DependencyResolutionException.
DependencyFailure(e, param, implementation_type) ==
    IF IsDependencyResolutionException(e)
    THEN IF param.has_default THEN Ret(DEFAULT)
         ELSE Raise(Exc(DRE, <<"Failed to create", implementation_type,
                               <<"Cannot resolve parameter", param.name,
                                 param.annotation>>>>))
    ELSE Raise(Exc(DRE, <<"Failed to create", implementation_type, e.msg>>))

\* TryResolveOutcome without the except clause of line 119.
TryResolveReraises(outcome) == outcome

\* try_resolve, lines 117-120: a DependencyResolutionException (of any
\* subclass) becomes the result None.
TryResolveOutcome(outcome) ==
    IF outcome.kind = "exc" /\ IsDependencyResolutionException(outcome.v)
    THEN ReturnNone
    ELSE outcome

LifecycleOf(regs, key) == IF In(key, regs) THEN regs[key].lifecycle ELSE None

\* A completed call, as the log keeps it.
Event(kind, t, key, scope, outcome, lifecycle) ==
    [kind |-> kind, thread |-> t, key |-> key, scope |-> scope,
     out |-> outcome.kind, v |-> outcome.v, lifecycle |-> lifecycle]

ResolveKinds == {"resolve", "try_resolve", "scope_resolve"}

Count(kinds) == Cardinality({i \in 1 .. Len(log) : log[i].kind \in kinds})

OpsStarted == Count(ResolveKinds) + Cardinality({t \in Threads : op[t].kind \in ResolveKinds})

\* The register_* calls made after the setup, the one under way included.
RegistersStarted ==
    Count({"register"}) + Cardinality({t \in Threads : op[t].kind = "register_instance"})

(***************************************************************************)
(* The end of a frame: its result goes to the frame below, or, from the    *)
(* last frame, to the public call, which ends here unless it is            *)
(* DependencyScope.resolve (that one still has its store to do).           *)
(***************************************************************************)
FinishFrame(t, outcome) ==
    LET rest == Tail(stack[t])
        key == GetKey(op[t].service_type, op[t].name)
    IN  /\ stack' = [stack EXCEPT ![t] = rest]
        /\ IF rest # <<>> \/ op[t].kind = "scope_resolve"
           THEN /\ pend' = [pend EXCEPT ![t] = outcome]
                /\ UNCHANGED <<op, log>>
           ELSE /\ pend' = [pend EXCEPT ![t] = NoPend]
                /\ op' = [op EXCEPT ![t] = Idle]
                /\ log' = Append(log, Event(op[t].kind, t, key, 0,
                            IF op[t].kind = "try_resolve"
                            THEN TryResolveOutcome(outcome) ELSE outcome,
                            LifecycleOf(registrations, key)))

\* Release with the lock kept on the way out.
ReleaseForgotten(t) == UNCHANGED <<lockOwner, lockCount>>

\* One level of the re-entrant lock is given back.
Release(t) ==
    /\ lockCount' = lockCount - 1
    /\ lockOwner' = IF lockCount = 1 THEN None ELSE t

(***************************************************************************)
(* The public calls.                                                       *)
(***************************************************************************)
\* resolve, line 113: _resolve_internal with an empty path.
Resolve(t, service_type, name) ==
    /\ t \in Program.threads
    /\ op[t].kind = "idle"
    /\ OpsStarted < MaxOps
    /\ <<"resolve", service_type, name>> \in Program.menu
    /\ op' = [op EXCEPT ![t] = [kind |-> "resolve", service_type |-> service_type,
                                name |-> name, scope |-> 0]]
    /\ stack' = [stack EXCEPT ![t] = <<Frame(service_type, name, {})>>]
    /\ UNCHANGED <<other_modules, prog, container, lockOwner, lockCount, scopes, pend, heap, log>>

\* try_resolve, line 118.
TryResolve(t, service_type, name) ==
    /\ t \in Program.threads
    /\ op[t].kind = "idle"
    /\ OpsStarted < MaxOps
    /\ <<"try_resolve", service_type, name>> \in Program.menu
    /\ op' = [op EXCEPT ![t] = [kind |-> "try_resolve", service_type |-> service_type,
                                name |-> name, scope |-> 0]]
    /\ stack' = [stack EXCEPT ![t] = <<Frame(service_type, name, {})>>]
    /\ UNCHANGED <<other_modules, prog, container, lockOwner, lockCount, scopes, pend, heap, log>>

\* RegisterInstanceLock with the lock not taken.
RegisterInstanceLockSkipped(t) == UNCHANGED <<lockOwner, lockCount>>

\* Line 88: register_instance takes the lock for its two writes.
RegisterInstanceLock(t) ==
    /\ lockOwner' = t
    /\ lockCount' = 1

\* A register_* call made after the setup, under the lock: the write of the
\* table entry (lines 89, 107, 153), which ends the call unless it is
\* register_instance.
RegisterCall(t, c) ==
    /\ t \in Program.threads
    /\ op[t].kind = "idle"
    /\ RegistersStarted < MaxRegs
    /\ c \in Program.later
    /\ lockOwner = None
    /\ registrations' = RegistrationsAfter(registrations, c)
    /\ IF c.call = "register_instance"
       THEN /\ op' = [op EXCEPT ![t] = [kind |-> "register_instance",
                          service_type |-> c.service_type, name |-> c.name,
                          scope |-> 0]]
            /\ RegisterInstanceLock(t)
            /\ UNCHANGED log
       ELSE /\ log' = Append(log, Event("register", t, GetKey(c.service_type, c.name),
                                        0, NoPend, c.lifecycle))
            /\ UNCHANGED <<op, lockOwner, lockCount>>
    /\ UNCHANGED <<other_modules, prog, singletons, scoped_instances, interceptors,
                   scopes, stack, pend, heap>>

\* Line 90: register_instance writes the instance it was given (the one of
\* the table entry it wrote under this lock) to the singleton cache and
\* leaves the lock.
RegisterInstanceStore(t) ==
    /\ op[t].kind = "register_instance"
    /\ op' = [op EXCEPT ![t] = Idle]
    /\ LET key == GetKey(op[t].service_type, op[t].name)
       IN  /\ singletons' = RegisterInstanceCache(singletons, op[t].service_type,
                                                  registrations[key].instance,
                                                  op[t].name)
           /\ log' = Append(log, Event("register", t, key, 0, NoPend, SINGLETON))
    /\ Release(t)
    /\ UNCHANGED <<other_modules, prog, registrations, scoped_instances, interceptors,
                   scopes, stack, pend, heap>>

\* add_interceptor, line 138: an append, without the lock.
AddInterceptor(t, i) ==
    /\ t \in Program.threads
    /\ i \in Program.interceptors
    /\ op[t].kind = "idle"
    /\ Len(interceptors) < MaxInterceptors
    /\ interceptors' = Append(interceptors, i)
    /\ UNCHANGED <<other_modules, prog, registrations, singletons, scoped_instances, lockOwner,
                   lockCount, scopes, op, stack, pend, heap, log>>

(***************************************************************************)
(* DependencyScope.                                                        *)
(***************************************************************************)
\* create_scope and __enter__: a new handle with an empty cache (after: the
\* handles already closed when this one is created; ended: the length of
\* the log when the handle is closed).
CreateScope(t) ==
    /\ t \in Program.threads
    /\ op[t].kind = "idle"
    /\ Len(scopes) < MaxScopes
    /\ Len(scopes) < Program.scopes
    /\ scopes' = Append(scopes,
                    [state |-> "open", owner |-> t, cache |-> EmptyDict, ended |-> 0,
                     after |-> {h \in 1 .. Len(scopes) : scopes[h].state = "closed"}])
    /\ UNCHANGED <<other_modules, prog, container, lockOwner, lockCount, op, stack, pend, heap, log>>

\* ExitCache with the handle's cache left as it is.
ExitCacheKept(cache) == cache

\* __exit__, line 272: the handle's cache is cleared.
ExitCache(cache) == EmptyDict

ScopeExit(t, h) ==
    /\ op[t].kind = "idle"
    /\ h \in 1 .. Len(scopes)
    /\ scopes[h].state = "open"
    /\ scopes[h].owner = t
    /\ scopes' = [scopes EXCEPT ![h] = [@ EXCEPT !.state = "closed",
                                                 !.ended = Len(log),
                                                 !.cache = ExitCache(@)]]
    /\ UNCHANGED <<other_modules, prog, container, lockOwner, lockCount, op, stack, pend, heap, log>>

\* DependencyScope.resolve, lines 276-281: the handle's own cache answers,
\* or the parent container is asked.
ScopeResolve(t, h, service_type, name) ==
    /\ t \in Program.threads
    /\ op[t].kind = "idle"
    /\ OpsStarted < MaxOps
    /\ <<"scope_resolve", service_type, name>> \in Program.menu
    /\ h \in 1 .. Len(scopes)
    /\ scopes[h].state = "open"
    /\ LET key == GetKey(service_type, name)
       IN  IF In(key, scopes[h].cache)
           THEN /\ log' = Append(log, Event("scope_resolve", t, key, h,
                                            Ret(scopes[h].cache[key]),
                                            LifecycleOf(registrations, key)))
                /\ UNCHANGED <<op, stack>>
           ELSE /\ op' = [op EXCEPT ![t] = [kind |-> "scope_resolve",
                              service_type |-> service_type, name |-> name,
                              scope |-> h]]
                /\ stack' = [stack EXCEPT ![t] = <<Frame(service_type, name, {})>>]
                /\ UNCHANGED log
    /\ UNCHANGED <<other_modules, prog, container, lockOwner, lockCount, scopes, pend, heap>>

\* DependencyScope.resolve, lines 281-283: the parent's result is put in the
\* handle's cache and returned; its exception passes through.
ScopeStore(t) ==
    /\ op[t].kind = "scope_resolve"
    /\ stack[t] = <<>>
    /\ pend[t].kind # "none"
    /\ op' = [op EXCEPT ![t] = Idle]
    /\ LET h == op[t].scope
           key == GetKey(op[t].service_type, op[t].name)
       IN  /\ scopes' = IF pend[t].kind = "ret"
                        THEN [scopes EXCEPT ![h].cache = Put(@, key, pend[t].v)]
                        ELSE scopes
           /\ log' = Append(log, Event("scope_resolve", t, key, h, pend[t],
                                       LifecycleOf(registrations, key)))
    /\ pend' = [pend EXCEPT ![t] = NoPend]
    /\ UNCHANGED <<other_modules, prog, container, lockOwner, lockCount, stack, heap>>

(***************************************************************************)
(* _resolve_internal, one frame event per step.                            *)
(***************************************************************************)
\* Lines 160-198 up to the first of: the cycle check fails; the key is not
\* registered; the cache has the instance; the instance must be created.
Enter(t) ==
    /\ stack[t] # <<>>
    /\ LET fr == Head(stack[t])
           key == fr.key
       IN
       /\ fr.pc = "enter"
       /\ IF OnPath(key, fr.path)
          THEN /\ \E order \in Orderings(fr.path) :
                     FinishFrame(t, Raise(CircularDependency(order, key)))
               /\ UNCHANGED <<container, lockOwner, lockCount>>
          ELSE /\ lockOwner \in {None, t}
               /\ IF ~In(key, registrations)
                  THEN /\ FinishFrame(t, Raise(NotRegistered(fr.service_type)))
                       /\ UNCHANGED <<container, lockOwner, lockCount>>
                  ELSE LET reg == registrations[key]
                           scoped == IF reg.lifecycle = SCOPED
                                     THEN WithThreadDict(scoped_instances, t)
                                     ELSE scoped_instances
                       IN  /\ scoped_instances' = scoped
                           /\ UNCHANGED <<registrations, singletons>>
                           /\ IF Cached(reg.lifecycle, singletons, scoped, t, key)
                              THEN /\ FinishFrame(t, ApplyInterceptors(interceptors,
                                         fr.service_type,
                                         CachedInstance(reg.lifecycle, singletons,
                                                        scoped, t, key)))
                                   /\ interceptors' = AfterInterception(interceptors)
                                   /\ UNCHANGED <<lockOwner, lockCount>>
                              ELSE /\ UNCHANGED interceptors
                                   /\ stack' = [stack EXCEPT ![t] =
                                         <<[fr EXCEPT !.registration = reg,
                                               !.pc = IF reg.instance = None
                                                         /\ reg.factory = None
                                                         /\ reg.implementation_type # None
                                                      THEN "params" ELSE "construct"]>>
                                         \o Tail(stack[t])]
                                   /\ lockOwner' = t
                                   /\ lockCount' = lockCount + 1
                                   /\ UNCHANGED <<op, pend, log>>
    /\ UNCHANGED <<other_modules, prog, scopes, heap>>

\* PathBelow with the identities already constructed never taken off the
\* path again.
PathBelowVisited(fr) == fr.path \cup {fr.key} \cup {heap[n].key : n \in 1 .. Len(heap)}

\* Lines 178, 191, 197: resolution_path.union({key}), a new set for the
\* dependencies of this frame.
PathBelow(fr) == fr.path \cup {fr.key}

\* Lines 222-231: the next constructor parameter; an annotated one is
\* resolved through the container with the owner's key added to the path.
Params(t) ==
    /\ stack[t] # <<>>
    /\ LET fr == Head(stack[t])
           params == Program.sig[fr.registration.implementation_type]
       IN
       /\ fr.pc = "params"
       /\ IF fr.idx > Len(params)
          THEN stack' = [stack EXCEPT ![t] =
                           <<[fr EXCEPT !.pc = "construct"]>> \o Tail(stack[t])]
          ELSE LET param == params[fr.idx]
               IN  IF param.annotation \notin {None, Empty}
                   THEN stack' = [stack EXCEPT ![t] =
                          <<Frame(param.annotation, None, PathBelow(fr)),
                            [fr EXCEPT !.pc = "await"]>> \o Tail(stack[t])]
                   ELSE stack' = [stack EXCEPT ![t] =
                          <<[fr EXCEPT !.idx = @ + 1,
                                !.kwargs = Append(@, IF param.has_default THEN DEFAULT
                                                     ELSE MISSING)]>>
                          \o Tail(stack[t])]
    /\ UNCHANGED <<other_modules, prog, container, lockOwner, lockCount, scopes, op, pend, heap, log>>

\* Lines 230-244: the dependency's result reaches the owner.
Deliver(t) ==
    /\ stack[t] # <<>>
    /\ pend[t].kind # "none"
    /\ LET fr == Head(stack[t])
           param == Program.sig[fr.registration.implementation_type][fr.idx]
           got == IF pend[t].kind = "ret" THEN pend[t]
                  ELSE DependencyFailure(pend[t].v, param,
                                         fr.registration.implementation_type)
       IN
       /\ fr.pc = "await"
       /\ IF got.kind = "ret"
          THEN /\ stack' = [stack EXCEPT ![t] =
                     <<[fr EXCEPT !.pc = "params", !.idx = @ + 1,
                           !.kwargs = Append(@, got.v)]>> \o Tail(stack[t])]
               /\ pend' = [pend EXCEPT ![t] = NoPend]
               /\ UNCHANGED <<op, log, lockOwner, lockCount>>
          ELSE /\ FinishFrame(t, got)
               /\ Release(t)
    /\ UNCHANGED <<other_modules, prog, container, scopes, heap>>

\* Lines 178-180, 191-193, 197-198: the instance is created, cached as its
\* lifecycle says, passed through the interceptors and returned.  The heap
\* notes for a new object who made it, and when (at: the calls completed).
Construct(t) ==
    /\ stack[t] # <<>>
    /\ LET fr == Head(stack[t])
           reg == fr.registration
           new == Obj(Len(heap) + 1)
           made == CreateInstance(reg, fr.kwargs, Program.raises, new)
       IN
       /\ fr.pc = "construct"
       /\ IF made.kind = "exc"
          THEN /\ FinishFrame(t, made)
               /\ UNCHANGED <<singletons, scoped_instances, heap, interceptors>>
          ELSE /\ heap' = IF made.v = new
                          THEN Append(heap,
                                 [cls |-> IF reg.factory # None THEN reg.factory
                                          ELSE reg.implementation_type,
                                  key |-> fr.key, lifecycle |-> reg.lifecycle,
                                  kwargs |-> fr.kwargs, thread |-> t,
                                  scope |-> op[t].scope, at |-> Len(log)])
                          ELSE heap
               /\ singletons' = StoreSingleton(singletons, reg.lifecycle, fr.key, made.v)
               /\ scoped_instances' =
                      StoreScoped(scoped_instances, reg.lifecycle, t, fr.key, made.v)
               /\ FinishFrame(t, ApplyInterceptors(interceptors, fr.service_type, made.v))
               /\ interceptors' = AfterInterception(interceptors)
       /\ Release(t)
    /\ UNCHANGED <<other_modules, prog, registrations, scopes>>

Next ==
    \/ \E t \in Threads, ty \in Types, nm \in Names : Resolve(t, ty, nm)
    \/ \E t \in Threads, ty \in Types, nm \in Names : TryResolve(t, ty, nm)
    \/ \E t \in Threads, c \in Program.later : RegisterCall(t, c)
    \/ \E t \in Threads : RegisterInstanceStore(t)
    \/ \E t \in Threads, i \in Interceptors : AddInterceptor(t, i)
    \/ \E t \in Threads : CreateScope(t)
    \/ \E t \in Threads, h \in 1 .. MaxScopes : ScopeExit(t, h)
    \/ \E t \in Threads, h \in 1 .. MaxScopes, ty \in Types, nm \in Names :
          ScopeResolve(t, h, ty, nm)
    \/ \E t \in Threads : ScopeStore(t)
    \/ \E t \in Threads : Enter(t)
    \/ \E t \in Threads : Params(t)
    \/ \E t \in Threads : Deliver(t)
    \/ \E t \in Threads : Construct(t)

Spec == Init /\ [][Next]_vars

\* Where every thread is in its call: the position of each of its frames
\* and whether a result is on its way.  Every step of a call changes it.
position ==
    [t \in Threads |->
        <<[i \in 1 .. Len(stack[t]) |-> <<stack[t][i].pc, stack[t][i].idx>>],
          pend[t].kind, op[t].kind>>]

\* The scheduler runs every thread that can take a step: a thread inside a
\* call is not suspended forever, and threading.RLock hands the lock to a
\* waiting thread once it stays free.
FairSpec ==
    /\ Init
    /\ [][Next]_vars
    /\ \A t \in Threads :
           WF_position(\/ Enter(t) \/ Params(t) \/ Deliver(t) \/ Construct(t)
                       \/ ScopeStore(t) \/ RegisterInstanceStore(t))

(***************************************************************************)
(* src/strategies.py and src/models.py: StandardRiskStrategy.resolve_battle *)
(* applied to two rolls.                                                   *)
(***************************************************************************)
ASCENDING == "ascending"
DESCENDING == "descending"
SortingStrategy == {ASCENDING, DESCENDING}

\* The value lists of the DiceRolls with at most n dice.
Rolls(n) == UNION {[1 .. k -> 1 .. MaxFace] : k \in 0 .. n}

Min(a, b) == IF a <= b THEN a ELSE b

Reverse(seq) == [i \in 1 .. Len(seq) |-> seq[Len(seq) + 1 - i]]

\* sorted(): x is put after the elements not greater than it.
RECURSIVE Insert(_, _)
Insert(x, seq) ==
    IF seq = <<>> THEN <<x>>
    ELSE IF x < Head(seq) THEN <<x>> \o seq
    ELSE <<Head(seq)>> \o Insert(x, Tail(seq))

RECURSIVE Sorted(_)
Sorted(values) ==
    IF values = <<>> THEN <<>>
    ELSE Insert(values[Len(values)], Sorted(SubSeq(values, 1, Len(values) - 1)))

\* DiceRoll.get_sorted_values: descending only for DESCENDING.
GetSortedValues(values, strategy) ==
    IF strategy = DESCENDING THEN Reverse(Sorted(values)) ELSE Sorted(values)

\* AttackerBeats with ties going to the attacker.
AttackerBeatsOrTies(a, d) == a >= d

\* Line 37 of strategies.py: the attacker wins when strictly greater.
AttackerBeats(a, d) == a > d

\* The loop of lines 36-40, from position i.
RECURSIVE AttackerWins(_, _, _, _)
AttackerWins(attacker_values, defender_values, i, comparisons) ==
    IF i > comparisons THEN 0
    ELSE (IF AttackerBeats(attacker_values[i], defender_values[i]) THEN 1 ELSE 0)
         + AttackerWins(attacker_values, defender_values, i + 1, comparisons)

RECURSIVE DefenderWins(_, _, _, _)
DefenderWins(attacker_values, defender_values, i, comparisons) ==
    IF i > comparisons THEN 0
    ELSE (IF AttackerBeats(attacker_values[i], defender_values[i]) THEN 0 ELSE 1)
         + DefenderWins(attacker_values, defender_values, i + 1, comparisons)

\* StandardRiskStrategy.resolve_battle.
StandardRiskStrategy(attacker, defender, strategy) ==
    LET attacker_values == GetSortedValues(attacker, strategy)
        defender_values == GetSortedValues(defender, strategy)
        comparisons == Min(Len(attacker_values), Len(defender_values))
    IN  [attacker_roll |-> attacker, defender_roll |-> defender,
         attacker_wins |-> AttackerWins(attacker_values, defender_values, 1, comparisons),
         defender_wins |-> DefenderWins(attacker_values, defender_values, 1, comparisons)]

InitBattle ==
    /\ ContainerUnused
    /\ NoDice
    /\ NoMetrics
    /\ NoSimulation
    /\ NoReporter
    /\ attacker_roll \in Rolls(MaxAttackerDice)
    /\ defender_roll \in Rolls(MaxDefenderDice)
    /\ sorting \in SortingStrategy
    /\ battle_result = <<>>

ResolveBattle ==
    /\ battle_result = <<>>
    /\ battle_result' = <<StandardRiskStrategy(attacker_roll, defender_roll, sorting)>>
    /\ UNCHANGED <<attacker_roll, defender_roll, sorting, vars, dice_vars, metric_vars,
                 simulation_vars, reporter_vars>>

NextBattle == ResolveBattle

SpecBattle == InitBattle /\ [][NextBattle]_battle_vars

(***************************************************************************)
(* src/models.py: the construction of a DiceConfiguration.                 *)
(***************************************************************************)
DiceType == {"attacker", "defender"}

\* The arguments of DiceConfiguration(...), invalid ones included.
DiceArguments ==
    [count : -1 .. MaxCount, sides : -1 .. MaxSides,
     min_value : -1 .. MaxSides + 1, max_value : -1 .. MaxSides + 1,
     dice_type : DiceType]

ValueError(text, value) ==
    [raised |-> TRUE, error |-> "ValueError", message |-> <<text, value>>, config |-> <<>>]

\* ValuesOutOfRange without the test of max_value.
ValuesBelowOne(args) == args.min_value < 1

\* Line 48 of models.py.
ValuesOutOfRange(args) == args.min_value < 1 \/ args.max_value > args.sides

\* DiceConfiguration.__post_init__: the first failing test raises.
PostInit(args) ==
    IF args.count <= 0 THEN ValueError("Dice count must be positive, got", args.count)
    ELSE IF args.sides <= 0 THEN ValueError("Dice sides must be positive, got", args.sides)
    ELSE IF args.min_value >= args.max_value
         THEN ValueError("Min value must be less than max value", None)
    ELSE IF ValuesOutOfRange(args)
         THEN ValueError("Dice values must be between 1 and", args.sides)
    ELSE [raised |-> FALSE, error |-> None, message |-> <<>>, config |-> <<args>>]

InitDice ==
    /\ ContainerUnused
    /\ NoBattle
    /\ NoMetrics
    /\ NoSimulation
    /\ NoReporter
    /\ dice_args \in {<<args>> : args \in DiceArguments}
    /\ dice_config = <<>>

\* DiceConfiguration(count, sides, min_value, max_value, dice_type).
CreateDiceConfiguration ==
    /\ dice_config = <<>>
    /\ dice_config' = <<PostInit(dice_args[1])>>
    /\ UNCHANGED <<dice_args, vars, battle_vars, metric_vars, simulation_vars, reporter_vars>>

NextDice == CreateDiceConfiguration

SpecDice == InitDice /\ [][NextDice]_dice_vars

(***************************************************************************)
(* src/dashboard.py: a MetricAggregator, its clock counted in minutes.     *)
(* A DashboardMetric is its name, value and timestamp; unit, tags and      *)
(* description are carried along unread.                                   *)
(***************************************************************************)
\* MetricAggregator(window_size_minutes=1).
WindowSize == 1

MetricNames == {"test_metric", "other_metric"}
MetricValues == {10, 20}

\* The metrics a caller can hand over at time `time`: stamped now or
\* earlier, up to one minute before the window.
Metrics(time) ==
    [name : MetricNames, value : MetricValues,
     timestamp : time - (WindowSize + 1) .. time]

\* datetime.isoformat.
Isoformat(timestamp) == <<"iso", timestamp>>

\* DashboardMetric.to_dict.
ToDict(metric) ==
    [name |-> metric.name, value |-> metric.value,
     timestamp |-> Isoformat(metric.timestamp)]

\* CleanupOldMetrics dropping the metric stamped at the cutoff.
CleanupOldMetricsStrict(history, time) ==
    SelectSeq(history, LAMBDA metric : metric.timestamp > time - WindowSize)

\* MetricAggregator._cleanup_old_metrics.
CleanupOldMetrics(history, time) ==
    SelectSeq(history, LAMBDA metric : metric.timestamp >= time - WindowSize)

\* MetricAggregator.get_current_metrics.
GetCurrentMetrics(history, time) ==
    LET current == SelectSeq(history, LAMBDA metric : metric.timestamp >= time - WindowSize)
    IN  [i \in 1 .. Len(current) |-> ToDict(current[i])]

\* grouped[name] of lines 70-74.
Grouped(history, name) ==
    LET of_name == SelectSeq(history, LAMBDA metric : metric.name = name)
    IN  [i \in 1 .. Len(of_name) |-> of_name[i].value]

RECURSIVE Sum(_)
Sum(values) == IF values = <<>> THEN 0 ELSE Head(values) + Sum(Tail(values))

MinOf(values) == CHOOSE v \in {values[i] : i \in 1 .. Len(values)} :
                     \A i \in 1 .. Len(values) : v <= values[i]

MaxOf(values) == CHOOSE v \in {values[i] : i \in 1 .. Len(values)} :
                     \A i \in 1 .. Len(values) : v >= values[i]

\* MetricAggregator.get_aggregated_metrics; avg is kept as the quotient
\* sum / count.
GetAggregatedMetrics(history) ==
    IF history = <<>> THEN EmptyDict
    ELSE [name \in {history[i].name : i \in 1 .. Len(history)} |->
             LET values == Grouped(history, name)
             IN  [count |-> Len(values),
                  sum |-> Sum(values),
                  avg |-> [num |-> Sum(values), den |-> Len(values)],
                  min |-> MinOf(values),
                  max |-> MaxOf(values),
                  latest |-> values[Len(values)]]]

InitMetrics ==
    /\ ContainerUnused
    /\ NoBattle
    /\ NoDice
    /\ NoMetrics
    /\ NoSimulation
    /\ NoReporter

\* MetricAggregator.add_metric; `added` records the calls made.
AddMetric(metric) ==
    /\ Len(added) < MaxMetrics
    /\ metrics_history' = CleanupOldMetrics(Append(metrics_history, metric), now)
    /\ added' = Append(added, metric)
    /\ UNCHANGED <<now, vars, battle_vars, dice_vars, simulation_vars, reporter_vars>>

\* A minute passes on datetime.now().
Tick ==
    /\ now < MaxTime
    /\ now' = now + 1
    /\ UNCHANGED <<metrics_history, added, vars, battle_vars, dice_vars,
                 simulation_vars, reporter_vars>>

NextMetrics ==
    \/ \E metric \in Metrics(now) : AddMetric(metric)
    \/ Tick

SpecMetrics == InitMetrics /\ [][NextMetrics]_metric_vars

(***************************************************************************)
(* risk.py: EnterpriseRiskSimulationEngine.run_simulation.  A battle is    *)
(* kept as the iteration it was executed for; the observers' callbacks     *)
(* return normally and are recorded in `events`.                           *)
(***************************************************************************)
\* The limit on len(result.battle_history), line 209.
HistoryLimit == 1000

\* Configurations that pass SimulationConfiguration.validate, models.py lines
\* 116-121: iterations > 0 and 0 < batch_size <= iterations.
Validated(c) ==
    /\ c.iterations > 0
    /\ c.batch_size > 0
    /\ c.batch_size <= c.iterations

\* The lists add_observer can build from distinct observers.
ObserverLists ==
    {list \in UNION {[1 .. n -> {"o1", "o2"}] : n \in 0 .. MaxObservers} :
        \A i, j \in 1 .. Len(list) : list[i] = list[j] => i = j}

\* `for observer in self.observers: observer.<callback>(...)`.
\* `battles` notes how many battles had been executed when the call was made.
Notify(callback, batch_number, total, battles) ==
    [i \in 1 .. Len(observers) |->
        [observer |-> observers[i], callback |-> callback,
         batch_number |-> batch_number, total_batches |-> total,
         battles |-> battles]]

IterationsInBatchFull(batch_size, total_iterations, iteration) == batch_size

\* Line 192.
IterationsInBatch(batch_size, total_iterations, iteration) ==
    Min(batch_size, total_iterations - iteration)

\* Lines 208-210.
StoreBattle(history, result) ==
    IF Len(history) < HistoryLimit THEN Append(history, result) ELSE history

InitSimulation ==
    /\ ContainerUnused
    /\ NoBattle
    /\ NoDice
    /\ NoMetrics
    /\ NoReporter
    /\ \/ /\ configuration \in
                 {<<>>} \cup {<<c>> : c \in {c \in [iterations : 1 .. MaxIterations,
                                                   batch_size : 1 .. MaxIterations] :
                                                Validated(c)}}
          /\ observers \in ObserverLists
       \* Runs that go past the battle_history limit, in one or in two batches.
       \/ /\ configuration \in
                 {<<[iterations |-> HistoryLimit + k, batch_size |-> HistoryLimit + k - j]>> :
                     k \in 0 .. MaxOver, j \in 0 .. MaxOver}
          /\ observers = <<>>
    /\ sim_pc = "idle"
    /\ total_battles = 0
    /\ battle_history = <<>>
    /\ total_batches = 0
    /\ batch_num = 0
    /\ current_iteration = 0
    /\ iterations_in_batch = 0
    /\ in_batch = 0
    /\ executed = 0
    /\ events = <<>>

\* run_simulation, lines 122-153, up to the first batch: without a
\* configuration it raises, otherwise every observer is told of the start and
\* _execute_simulation_batches sets up its loop, lines 179-188.
RunSimulation ==
    /\ sim_pc = "idle"
    /\ IF configuration = <<>>
       THEN /\ sim_pc' = "raised"
            /\ UNCHANGED <<total_batches, events>>
       ELSE /\ sim_pc' = "batch"
            /\ total_batches' = (configuration[1].iterations
                                  + configuration[1].batch_size - 1)
                                     \div configuration[1].batch_size
            /\ events' = events \o Notify("on_simulation_started", 0, 0, 0)
    /\ UNCHANGED <<configuration, observers, total_battles, battle_history, batch_num,
                   current_iteration, iterations_in_batch, in_batch, executed, vars, battle_vars, dice_vars, metric_vars, reporter_vars>>

\* `for batch_num in range(total_batches)`, lines 190-192: the next batch
\* begins, or the loop is over and run_simulation goes on at line 156.
BeginBatch ==
    /\ sim_pc = "batch"
    /\ IF batch_num < total_batches
       THEN /\ sim_pc' = "battle"
            /\ iterations_in_batch' = IterationsInBatch(configuration[1].batch_size,
                                                        configuration[1].iterations,
                                                        current_iteration)
            /\ in_batch' = 0
       ELSE /\ sim_pc' = "finalize"
            /\ UNCHANGED <<iterations_in_batch, in_batch>>
    /\ UNCHANGED <<configuration, observers, total_battles, battle_history, total_batches,
                   batch_num, current_iteration, executed, events, vars, battle_vars, dice_vars, metric_vars, reporter_vars>>

\* One turn of `for _ in range(iterations_in_batch)`, lines 198-216; when
\* _execute_single_battle raises, run_simulation raises at line 175.
ExecuteBattle(fails) ==
    /\ sim_pc = "battle"
    /\ in_batch < iterations_in_batch
    /\ IF fails
       THEN /\ sim_pc' = "raised"
            /\ UNCHANGED <<total_battles, battle_history, current_iteration, in_batch,
                           executed, events>>
       ELSE /\ sim_pc' = "battle"
            /\ executed' = executed + 1
            /\ total_battles' = total_battles + 1
            /\ battle_history' = StoreBattle(battle_history, current_iteration)
            /\ events' = events \o Notify("on_battle_completed", 0, 0, executed + 1)
            /\ current_iteration' = current_iteration + 1
            /\ in_batch' = in_batch + 1
    /\ UNCHANGED <<configuration, observers, total_batches, batch_num, iterations_in_batch,
                   vars, battle_vars, dice_vars, metric_vars, reporter_vars>>

\* The end of a batch, lines 218-224: the division by iterations_in_batch,
\* then every observer is told of the batch.
EndBatch ==
    /\ sim_pc = "battle"
    /\ in_batch >= iterations_in_batch
    /\ IF iterations_in_batch = 0
       THEN /\ sim_pc' = "raised"
            /\ UNCHANGED <<batch_num, events>>
       ELSE /\ sim_pc' = "batch"
            /\ batch_num' = batch_num + 1
            /\ events' = events \o Notify("on_batch_completed", batch_num + 1, total_batches, executed)
    /\ UNCHANGED <<configuration, observers, total_battles, battle_history, total_batches,
                   current_iteration, iterations_in_batch, in_batch, executed, vars, battle_vars, dice_vars, metric_vars, reporter_vars>>

\* _calculate_performance_metrics, lines 253-259, given execution_time_seconds:
\* battles_per_second is a property without a setter (models.py lines 148-151),
\* so the assignment at line 256 raises AttributeError.
CalculatePerformanceMetrics(execution_time_seconds) ==
    IF execution_time_seconds > 0 THEN "AttributeError" ELSE None

\* run_simulation, lines 156-175, after the batches.
Finalize(execution_time_seconds) ==
    /\ sim_pc = "finalize"
    /\ IF CalculatePerformanceMetrics(execution_time_seconds) # None
       THEN /\ sim_pc' = "raised"
            /\ UNCHANGED events
       ELSE /\ sim_pc' = "returned"
            /\ events' = events \o Notify("on_simulation_completed", 0, 0, executed)
    /\ UNCHANGED <<configuration, observers, total_battles, battle_history, total_batches,
                   batch_num, current_iteration, iterations_in_batch, in_batch, executed,
                   vars, battle_vars, dice_vars, metric_vars, reporter_vars>>

NextSimulation ==
    \/ RunSimulation
    \/ BeginBatch
    \/ \E fails \in BOOLEAN : ExecuteBattle(fails)
    \/ EndBatch
    \/ \E execution_time_seconds \in 0 .. MaxElapsed : Finalize(execution_time_seconds)

SpecSimulation == InitSimulation /\ [][NextSimulation]_simulation_vars

(***************************************************************************)
(* dashboard.py: MetricsReporter.  start() and stop() are called by one    *)
(* thread, one call after the other; every Thread that start() creates     *)
(* runs _report_loop on its own.  The metrics a loop reports go to the     *)
(* DashboardServer and are not part of the reporter's state.               *)
(***************************************************************************)
InitReporter ==
    /\ ContainerUnused
    /\ NoBattle
    /\ NoDice
    /\ NoMetrics
    /\ NoSimulation
    /\ NoReporter

\* MetricsReporter.start, lines 298-306.
Start ==
    /\ ~joining
    /\ Len(reporter_calls) < MaxCalls
    /\ reporter_calls' = Append(reporter_calls, "start")
    /\ IF running
       THEN UNCHANGED <<running, thread, loops>>
       ELSE /\ running' = TRUE
            /\ loops' = Append(loops, "check")
            /\ thread' = Len(loops) + 1
    /\ UNCHANGED <<joining, vars, battle_vars, dice_vars, metric_vars, simulation_vars>>

\* MetricsReporter.stop, lines 308-311, up to the join.
Stop ==
    /\ ~joining
    /\ Len(reporter_calls) < MaxCalls
    /\ reporter_calls' = Append(reporter_calls, "stop")
    /\ running' = FALSE
    /\ joining' = TRUE
    /\ UNCHANGED <<thread, loops, vars, battle_vars, dice_vars, metric_vars, simulation_vars>>

\* MetricsReporter.stop, lines 311-313: there is no thread to join, or
\* join(timeout=1) returns because the thread has ended, or because the second
\* has passed with the thread still in time.sleep(self.report_interval).
JoinReturns ==
    /\ joining
    /\ thread # 0 => loops[thread] \in {"exited", "sleep"}
    /\ joining' = FALSE
    /\ UNCHANGED <<running, thread, loops, reporter_calls, vars, battle_vars, dice_vars, metric_vars, simulation_vars>>

\* _report_loop, lines 317-339: the test of `while self.running`, and, when it
\* holds, the report up to the time.sleep that ends the turn.
LoopCheck(l) ==
    /\ l \in 1 .. Len(loops)
    /\ loops[l] = "check"
    /\ loops' = [loops EXCEPT ![l] = IF running THEN "sleep" ELSE "exited"]
    /\ UNCHANGED <<running, thread, reporter_calls, joining, vars, battle_vars, dice_vars, metric_vars, simulation_vars>>

\* time.sleep returns, lines 335 and 339.
LoopWake(l) ==
    /\ l \in 1 .. Len(loops)
    /\ loops[l] = "sleep"
    /\ loops' = [loops EXCEPT ![l] = "check"]
    /\ UNCHANGED <<running, thread, reporter_calls, joining, vars, battle_vars, dice_vars, metric_vars, simulation_vars>>

NextReporter ==
    \/ Start
    \/ Stop
    \/ JoinReturns
    \/ \E l \in 1 .. MaxCalls : LoopCheck(l)
    \/ \E l \in 1 .. MaxCalls : LoopWake(l)

SpecReporter == InitReporter /\ [][NextReporter]_reporter_vars

\* Every _report_loop thread gets to run.
FairSpecReporter ==
    /\ SpecReporter
    /\ \A l \in 1 .. MaxCalls : WF_reporter_vars(LoopCheck(l) \/ LoopWake(l))

(***************************************************************************)
(* Properties.  The log holds the completed calls in the order in which    *)
(* they ended; a resolve or try_resolve ends in the step that gives back   *)
(* the lock, so its place in the log is its place among the register_*     *)
(* calls.                                                                  *)
(***************************************************************************)
Events == 1 .. Len(log)
Objects == 1 .. Len(heap)

\* Event i is a call of the given kinds for a key of the given lifecycle
\* that returned an instance.
Returned(i, kinds, lifecycle) ==
    /\ log[i].kind \in kinds
    /\ log[i].out = "ret"
    /\ log[i].lifecycle = lifecycle

\* A register_* call for the key lies between events i and j.
RegisteredBetween(i, j, key) ==
    \E k \in Events : i < k /\ k < j /\ log[k].kind = "register" /\ log[k].key = key

\* The objects constructed for a key under a lifecycle.
Constructed(key, lifecycle) ==
    {n \in Objects : heap[n].key = key /\ heap[n].lifecycle = lifecycle}

\* C1: any two resolve calls for an identity registered as Singleton, by any
\* threads and in any interleaving, with no register_* call for the identity
\* between them, return the same instance.
C1_SingletonIdentity ==
    \A i, j \in Events :
        ( /\ i < j
          /\ Returned(i, {"resolve", "try_resolve"}, SINGLETON)
          /\ Returned(j, {"resolve", "try_resolve"}, SINGLETON)
          /\ log[i].key = log[j].key
          /\ ~RegisteredBetween(i, j, log[i].key) )
        => log[i].v.obj = log[j].v.obj

\* Two threads have resolved the same singleton, which was constructed once.
C1_Witness ==
    \E i, j \in Events :
        /\ i < j
        /\ Returned(i, {"resolve"}, SINGLETON)
        /\ Returned(j, {"resolve"}, SINGLETON)
        /\ log[i].key = log[j].key
        /\ log[i].thread # log[j].thread
        /\ ~RegisteredBetween(i, j, log[i].key)
        /\ log[j].v.obj = Obj(1)
        /\ Constructed(log[i].key, SINGLETON) = {1}

\* C2: the first resolves of a Singleton identity, and of a Scoped identity
\* within one scope, construct it once however many threads make them.
C2_ConstructedOnce ==
    /\ \A key \in AllKeys : Cardinality(Constructed(key, SINGLETON)) <= 1
    /\ \A key \in AllKeys, h \in 1 .. Len(scopes) :
           Cardinality({n \in Constructed(key, SCOPED) : heap[n].scope = h}) <= 1

\* The key is asked for by a constructor parameter of some class.
IsDependency(key) ==
    \E ty \in Types : \E i \in 1 .. Len(Program.sig[ty]) :
        key = GetKey(Program.sig[ty][i].annotation, None)

\* C3: every resolve of an identity registered as Transient returns an
\* object constructed for that identity by that call, never one returned
\* before, and for an identity that is nobody's dependency the constructor
\* or provider has run, in calls on the container, once per returned call.
C3_TransientFreshness ==
    /\ \A i \in Events :
           Returned(i, {"resolve", "try_resolve"}, TRANSIENT)
           => \E n \in Constructed(log[i].key, TRANSIENT) :
                  /\ log[i].v.obj = Obj(n)
                  /\ heap[n].thread = log[i].thread
    /\ \A i, j \in Events :
           ( /\ i < j
             /\ Returned(i, {"resolve", "try_resolve"}, TRANSIENT)
             /\ log[j].kind \in {"resolve", "try_resolve"}
             /\ log[j].out = "ret" )
           => log[i].v.obj # log[j].v.obj
    /\ \A key \in AllKeys :
           ~IsDependency(key)
           => Cardinality({n \in Constructed(key, TRANSIENT) : heap[n].scope = 0})
                = Cardinality({i \in Events :
                      /\ Returned(i, {"resolve", "try_resolve"}, TRANSIENT)
                      /\ log[i].key = key})

\* Two resolves of one transient identity have returned two objects.
C3_Witness ==
    \E i, j \in Events :
        /\ i < j
        /\ Returned(i, {"resolve"}, TRANSIENT)
        /\ Returned(j, {"resolve"}, TRANSIENT)
        /\ log[i].key = log[j].key
        /\ log[i].v.obj # log[j].v.obj
        /\ Cardinality(Constructed(log[i].key, TRANSIENT)) = 2

\* C4: two resolves of a Scoped identity through the same scope handle
\* return the same instance.
C4_ScopedReuse ==
    \A i, j \in Events :
        ( /\ i < j
          /\ Returned(i, {"scope_resolve"}, SCOPED)
          /\ Returned(j, {"scope_resolve"}, SCOPED)
          /\ log[i].key = log[j].key
          /\ log[i].scope = log[j].scope )
        => log[i].v = log[j].v

\* C5: resolves of one Scoped identity through two distinct open scopes
\* return distinct instances.
C5_ScopeIsolation ==
    \A i, j \in Events :
        ( /\ Returned(i, {"scope_resolve"}, SCOPED)
          /\ Returned(j, {"scope_resolve"}, SCOPED)
          /\ log[i].key = log[j].key
          /\ log[i].scope # log[j].scope
          /\ scopes[log[i].scope].state = "open"
          /\ scopes[log[j].scope].state = "open" )
        => log[i].v.obj # log[j].v.obj

\* Event i is a resolve of a Scoped identity through a scope handle that
\* returned before the handle was closed.
ResolvedThenClosed(i) ==
    /\ Returned(i, {"scope_resolve"}, SCOPED)
    /\ scopes[log[i].scope].state = "closed"
    /\ i <= scopes[log[i].scope].ended

\* C6: a scope opened after scope A was closed gets a new instance of a
\* Scoped identity that A resolved, and once A is closed no cache of the
\* container or of a handle holds the instance A was given.
C6_NoLeakFromClosedScope ==
    /\ \A i, j \in Events :
           ( /\ ResolvedThenClosed(i)
             /\ Returned(j, {"scope_resolve"}, SCOPED)
             /\ log[i].key = log[j].key
             /\ log[i].scope \in scopes[log[j].scope].after )
           => log[i].v.obj # log[j].v.obj
    /\ \A i \in Events :
           ResolvedThenClosed(i)
           => /\ \A t \in DOMAIN scoped_instances :
                     \A key \in DOMAIN scoped_instances[t] :
                         scoped_instances[t][key] # log[i].v.obj
              /\ \A h \in 1 .. Len(scopes) :
                     \A key \in DOMAIN scopes[h].cache :
                         scopes[h].cache[key].obj # log[i].v.obj

\* The keys an identity's registration asks the container for: the
\* annotated constructor parameters of a registered implementation type.
Needs(key) ==
    IF In(key, registrations)
         /\ registrations[key].instance = None
         /\ registrations[key].factory = None
         /\ registrations[key].implementation_type # None
    THEN LET params == Program.sig[registrations[key].implementation_type]
         IN  {GetKey(params[i].annotation, None) :
                  i \in {x \in 1 .. Len(params) : params[x].annotation \in Types}}
    ELSE {}

RECURSIVE Reach(_, _)
Reach(keys, n) ==
    IF n = 0 THEN keys
    ELSE Reach(keys \cup UNION {Needs(k) : k \in keys}, n - 1)

OnCycle(key) == key \in Reach(Needs(key), Cardinality(AllKeys))

\* C7: a resolve of an identity on a dependency cycle fails, and what the
\* caller gets is a CircularDependencyException.
C7_CycleDetected ==
    \A i \in Events :
        (log[i].kind = "resolve" /\ OnCycle(log[i].key))
        => /\ log[i].out = "exc"
           /\ log[i].v.cls = CDE

\* This step is the top-level frame of thread t looking up its key.
TopLevelLookup(t) ==
    /\ Len(stack[t]) = 1
    /\ Head(stack[t]).pc = "enter"
    /\ op[t].kind \in {"resolve", "try_resolve"}
    /\ stack'[t] # stack[t]

\* C8: resolve of an unregistered identity raises the "not registered"
\* DependencyResolutionException, try_resolve of it returns None, and the
\* registration table and the caches are as they were.
C8_MissingRegistration ==
    [][\A t \in Threads :
         (TopLevelLookup(t) /\ ~In(Head(stack[t]).key, registrations))
         => /\ UNCHANGED <<registrations, singletons, scoped_instances, scopes>>
            /\ Len(log') = Len(log) + 1
            /\ LET e == log'[Len(log')]
               IN  /\ e.thread = t
                   /\ e.key = Head(stack[t]).key
                   /\ e.kind = op[t].kind
                   /\ IF op[t].kind = "resolve"
                      THEN /\ e.out = "exc"
                           /\ e.v.cls = DRE
                           /\ e.v.msg[1] = "Service not registered"
                           /\ e.v.msg[2] = Head(stack[t]).service_type
                      ELSE e.out = "absent"
      ]_vars

\* An unregistered identity has been asked for with resolve and with
\* try_resolve.
C8_Witness ==
    \E i, j \in Events :
        /\ log[i].kind = "resolve" /\ log[i].lifecycle = None
        /\ log[i].out = "exc"
        /\ log[j].kind = "try_resolve" /\ log[j].lifecycle = None
        /\ log[j].out = "absent"
        /\ log[i].key = log[j].key

\* C9: try_resolve of a registered identity never returns None: a failed
\* resolution reaches the caller as the failure.
C9_TryResolveOnlyUnregistered ==
    \A i \in Events :
        (log[i].kind = "try_resolve" /\ log[i].lifecycle # None)
        => log[i].out # "absent"

\* The value v was produced by the container for the key: an object
\* constructed for it, or an instance the program registers for it.
ResolvedFor(v, key) ==
    \/ \E n \in Objects : v.obj = Obj(n) /\ heap[n].key = key
    \/ \E c \in Program.later \cup {Program.setup[i] : i \in 1 .. Len(Program.setup)} :
           /\ c.call = "register_instance"
           /\ GetKey(c.service_type, c.name) = key
           /\ c.instance = v.obj

\* The owner at the top of thread t's stack is handed the "not registered"
\* failure of a parameter that has a default.
DefaultedNow(t) ==
    /\ stack[t] # <<>>
    /\ Head(stack[t]).pc = "await"
    /\ pend[t].kind = "exc"
    /\ pend[t].v.cls = DRE
    /\ pend[t].v.msg[1] = "Service not registered"
    /\ LET fr == Head(stack[t])
       IN  Program.sig[fr.registration.implementation_type][fr.idx].has_default
    /\ stack'[t] # stack[t]

\* C10: when a dependency with a default is not registered, the owner goes
\* on with the default for it (and is constructed with it); every other
\* annotated parameter of a constructed object holds a value the container
\* resolved for the parameter's type.
C10_OptionalDependencyFallback ==
    /\ [][\A t \in Threads :
            DefaultedNow(t)
            => /\ Len(stack'[t]) = Len(stack[t])
               /\ Head(stack'[t]).pc = "params"
               /\ Head(stack'[t]).idx = Head(stack[t]).idx + 1
               /\ Head(stack'[t]).kwargs = Append(Head(stack[t]).kwargs, DEFAULT)
               /\ pend'[t] = NoPend
         ]_vars
    /\ [](\A n \in Objects :
            heap[n].cls \in Types
            => LET params == Program.sig[heap[n].cls]
               IN  /\ Len(heap[n].kwargs) = Len(params)
                   /\ \A i \in 1 .. Len(params) :
                          params[i].annotation \in Types
                          => \/ params[i].has_default /\ heap[n].kwargs[i] = DEFAULT
                             \/ /\ heap[n].kwargs[i] # DEFAULT
                                /\ ResolvedFor(heap[n].kwargs[i],
                                       GetKey(params[i].annotation, None)))

\* A resolve has returned an object built with the default for its second
\* parameter, whose type is not registered, and a resolved first argument.
C10_Witness ==
    \E i \in Events :
        /\ log[i].kind = "resolve"
        /\ log[i].out = "ret"
        /\ \E n \in Objects :
               /\ log[i].v.obj = Obj(n)
               /\ Len(heap[n].kwargs) = 2
               /\ heap[n].kwargs[2] = DEFAULT
               /\ heap[n].kwargs[1] # DEFAULT
               /\ ~In(GetKey(Program.sig[heap[n].cls][2].annotation, None), registrations)

\* This step completes a call of one of the kinds with a returned instance.
Hands(kinds) ==
    /\ Len(log') = Len(log) + 1
    /\ log'[Len(log')].kind \in kinds
    /\ log'[Len(log')].out = "ret"

\* The callables a list of interceptors holds: "once" is the same callable
\* before and after it has raised.
Callables(chain) ==
    [i \in 1 .. Len(chain) |-> IF chain[i] = "spent" THEN "once" ELSE chain[i]]

\* C11: the interceptor list only grows at its end, and every instance a
\* resolve of the container returns carries the markers of the interceptors
\* in the order in which they were added (with f added before g, g(f(x))),
\* each put on the previous one's result.
C11_InterceptorOrder ==
    /\ [][/\ Len(interceptors') >= Len(interceptors)
          /\ SubSeq(Callables(interceptors'), 1, Len(interceptors))
                = Callables(interceptors)]_vars
    /\ [][Hands({"resolve", "try_resolve"})
          => log'[Len(log')].v.marks = interceptors]_vars

\* With f added before g, a resolve has returned g(f(instance)).
C11_Witness ==
    \E i \in Events :
        /\ Returned(i, {"resolve"}, SINGLETON)
        /\ interceptors = <<"f", "g">>
        /\ log[i].v.marks = <<"f", "g">>

\* The last Len(chain) markers of a value are those of the chain.
ThroughChain(v, chain) ==
    /\ Len(v.marks) >= Len(chain)
    /\ SubSeq(v.marks, Len(v.marks) - Len(chain) + 1, Len(v.marks)) = chain

\* C12: every instance handed to a caller, by the container or from a scope
\* handle's cache, has passed through the interceptors of the container as
\* they are when it is handed over; so has the instance the container
\* gives to DependencyScope.resolve.
C12_InterceptorsOnEveryAccess ==
    /\ [][\A t \in Threads :
            ( /\ Hands(ResolveKinds)
              /\ log'[Len(log')].thread = t
              /\ op[t].kind # "scope_resolve" )
            => ThroughChain(log'[Len(log')].v, interceptors)]_vars
    /\ [][\A t \in Threads :
            ( /\ op[t].kind = "scope_resolve"
              /\ pend[t].kind = "none"
              /\ stack'[t] = <<>>
              /\ pend'[t].kind = "ret" )
            => ThroughChain(pend'[t].v, interceptors)]_vars

\* This step is the table write of a register_* call for the key: the
\* whole call, or the first write of register_instance.
Registers(key, lifecycle) ==
    \/ /\ Len(log') = Len(log) + 1
       /\ log'[Len(log')].kind = "register"
       /\ op' = op
       /\ log'[Len(log')].key = key
       /\ log'[Len(log')].lifecycle = lifecycle
    \/ \E t \in Threads :
          /\ op[t].kind = "idle"
          /\ op'[t].kind = "register_instance"
          /\ GetKey(op'[t].service_type, op'[t].name) = key
          /\ lifecycle = SINGLETON

\* The registration a register_* call is to leave in the table.
Written(c) ==
    [service_type |-> c.service_type,
     implementation_type |-> IF c.call \in {"register_instance", "register_factory"}
                             THEN None
                             ELSE IF c.implementation_type = None THEN c.service_type
                             ELSE c.implementation_type,
     factory |-> c.factory, instance |-> c.instance, lifecycle |-> c.lifecycle,
     name |-> c.name]

\* C13: a register_* call never fails and leaves under its identity the
\* registration it describes, whatever was there, and every other entry as
\* it was; nothing else changes the table; the table holds each
\* registration under its own identity, one per identity, and
\* is_registered and get_registrations answer from it.
C13_LastWriteWins ==
    /\ [][\A key \in AllKeys, lifecycle \in LifecycleScope :
            Registers(key, lifecycle)
            => /\ DOMAIN registrations' = DOMAIN registrations \cup {key}
               /\ \A k \in DOMAIN registrations :
                      k # key => registrations'[k] = registrations[k]
               /\ \E c \in Program.later :
                      /\ GetKey(c.service_type, c.name) = key
                      /\ c.lifecycle = lifecycle
                      /\ registrations'[key] = Written(c)
               /\ IsRegistered(registrations', key[1], key[2])
               /\ {r \in GetRegistrations(registrations') :
                      GetKey(r.service_type, r.name) = key} = {registrations'[key]}
         ]_vars
    /\ [][(\A key \in AllKeys, lifecycle \in LifecycleScope : ~Registers(key, lifecycle))
          => UNCHANGED registrations]_vars
    /\ [](\A i \in 1 .. Len(log) : log[i].kind = "register" => log[i].out # "exc")
    /\ [](\A k \in DOMAIN registrations :
             GetKey(registrations[k].service_type, registrations[k].name) = k)

\* An identity the setup registered has been registered again with another
\* lifecycle, and the table holds the later registration.
C13_Witness ==
    \E i \in Events :
        /\ log[i].kind = "register"
        /\ \E n \in 1 .. Len(Program.setup) :
               /\ GetKey(Program.setup[n].service_type, Program.setup[n].name) = log[i].key
               /\ Program.setup[n].lifecycle # log[i].lifecycle
        /\ registrations[log[i].key].lifecycle = log[i].lifecycle
        /\ Cardinality(GetRegistrations(registrations)) = Len(Program.setup)

\* The last call thread t completed before event i (0 when there is none).
PreviousEvent(i) ==
    LET before == {k \in Events : k < i /\ log[k].thread = log[i].thread}
    IN  IF before = {} THEN 0 ELSE CHOOSE k \in before : \A m \in before : m <= k

\* Object n was constructed in the course of the call that event i ended.
ConstructedDuring(n, i) ==
    /\ heap[n].thread = log[i].thread
    /\ PreviousEvent(i) <= heap[n].at
    /\ heap[n].at < i

\* Some cache of the container holds the object.
InSomeCache(obj) ==
    \/ \E k \in DOMAIN singletons : singletons[k] = obj
    \/ \E t \in DOMAIN scoped_instances :
           \E k \in DOMAIN scoped_instances[t] : scoped_instances[t][k] = obj

\* C14: a resolve that fails leaves the singleton cache and the scoped
\* caches as they were: no step of the call writes them, so that no object
\* constructed in the course of a failed call is in a cache.
C14_FailedResolveLeavesCaches ==
    \A i \in Events :
        (log[i].kind \in {"resolve", "scope_resolve"} /\ log[i].out = "exc")
        => \A n \in Objects : ConstructedDuring(n, i) => ~InSomeCache(Obj(n))

\* C15: a resolve made on the container itself, without a scope handle, of
\* an identity registered as Scoped fails, and no Scoped instance is
\* constructed in a call made without a scope handle.
C15_NoActiveScope ==
    /\ \A i \in Events :
           ( /\ log[i].kind \in {"resolve", "try_resolve"}
             /\ log[i].lifecycle = SCOPED )
           => log[i].out # "ret"
    /\ \A n \in Objects : heap[n].lifecycle = SCOPED => heap[n].scope # 0

\* No identity that the key depends on, nor the key, is in a cache.
NothingCached(key) ==
    \A k \in Reach({key}, Cardinality(AllKeys)) :
        /\ ~In(k, singletons)
        /\ \A t \in DOMAIN scoped_instances : ~In(k, scoped_instances[t])

\* C16: a resolve of an identity on a dependency cycle, none of whose
\* identities is cached, never returns an instance, whether or not the
\* parameter that closes the cycle has a default.
C16_CycleAlwaysFatal ==
    \A i \in Events :
        ( /\ log[i].kind \in {"resolve", "try_resolve"}
          /\ OnCycle(log[i].key)
          /\ NothingCached(log[i].key) )
        => log[i].out # "ret"

\* The keys of the frames below frame k of thread t: the identities whose
\* resolution is waiting for frame k.
Below(t, k) == {stack[t][j].key : j \in k + 1 .. Len(stack[t])}

\* C17: the path of every frame holds the identities in flight below it on
\* its own thread and no others, and a frame ends with
\* CircularDependencyException only when its identity is in flight below it
\* on its own thread.
C17_PathPrivateToCall ==
    /\ [](\A t \in Threads : \A k \in 1 .. Len(stack[t]) :
             stack[t][k].path = Below(t, k))
    /\ [][\A t \in Threads :
            ( /\ pend[t].kind = "none"
              /\ pend'[t].kind = "exc"
              /\ pend'[t].v.cls = CDE )
            => Head(stack[t]).key \in Below(t, 1)]_vars

\* While one thread has an identity in flight below a dependency of it,
\* the other thread has called resolve for the same identity, with an empty
\* path of its own.
C17_Witness ==
    \E t, u \in Threads :
        /\ t # u
        /\ Len(stack[t]) >= 2
        /\ Len(stack[u]) = 1
        /\ Head(stack[u]).pc = "enter"
        /\ Head(stack[u]).path = {}
        /\ Head(stack[u]).key \in Head(stack[t]).path

\* Object n is an instance of a class, built by its constructor.
Owner(n) == heap[n].cls \in Types

\* Argument i of owner n is object d.
Injected(n, i, d) ==
    /\ i \in 1 .. Len(heap[n].kwargs)
    /\ heap[n].kwargs[i] \notin {DEFAULT, MISSING}
    /\ heap[n].kwargs[i].obj = Obj(d)

\* C18: an object built by a constructor has one argument per parameter,
\* and the argument of an annotated parameter whose resolution succeeded is
\* an instance the container made for the parameter's type before the
\* owner; a Singleton dependency is the same instance in all its owners,
\* and a Transient dependency is a new one for each owner.
C18_DependencyWiring ==
    /\ \A n \in Objects :
           Owner(n)
           => LET params == Program.sig[heap[n].cls]
              IN  /\ Len(heap[n].kwargs) = Len(params)
                  /\ \A i \in 1 .. Len(params) :
                         (params[i].annotation \in Types /\ heap[n].kwargs[i] # DEFAULT)
                         => \E d \in Objects :
                                /\ d < n
                                /\ Injected(n, i, d)
                                /\ heap[d].key = GetKey(params[i].annotation, None)
                                /\ heap[d].thread \in Program.threads
    /\ \A n, m, d, f \in Objects :
        \A i \in 1 .. Len(heap[n].kwargs), j \in 1 .. Len(heap[m].kwargs) :
           ( /\ Owner(n) /\ Owner(m) /\ n # m
             /\ Injected(n, i, d) /\ Injected(m, j, f)
             /\ heap[d].key = heap[f].key )
           => /\ (heap[d].lifecycle = SINGLETON /\ heap[f].lifecycle = SINGLETON)
                    => d = f
              /\ heap[d].lifecycle = TRANSIENT => d # f

\* Two threads have each resolved the transient owner: the two owners are
\* distinct and hold the same singleton.
C18_Witness ==
    \E i, j \in Events : \E n, m, d \in Objects :
        /\ log[i].thread # log[j].thread
        /\ Returned(i, {"resolve"}, TRANSIENT)
        /\ Returned(j, {"resolve"}, TRANSIENT)
        /\ log[i].v.obj = Obj(n)
        /\ log[j].v.obj = Obj(m)
        /\ n # m
        /\ Injected(n, 1, d)
        /\ Injected(m, 1, d)
        /\ heap[d].lifecycle = SINGLETON

\* C19: a resolve that fails because a provider or a constructor raised
\* gives its caller a DependencyResolutionException, never the error as it
\* was raised, and try_resolve does not turn it into None.
C19_ConstructionFailed ==
    \A i \in Events :
        /\ (log[i].kind \in ResolveKinds /\ log[i].out = "exc")
              => IsDependencyResolutionException(log[i].v)
        /\ ( /\ log[i].kind = "try_resolve"
             /\ log[i].lifecycle # None
             /\ \/ registrations[log[i].key].factory = "raises"
                \/ registrations[log[i].key].implementation_type \in Program.raises )
           => log[i].out = "exc"

\* C20: two different names of one type, or a name and no name, are two
\* identities: the table keeps a registration under every identity the
\* setup registered, whatever is registered under other names, and a
\* resolve that returns an instance has used the registration made under
\* the name it asked for.
C20_NamedIdentitiesDistinct ==
    /\ [](\A n \in 1 .. Len(Program.setup) :
             \E k \in DOMAIN registrations :
                 /\ registrations[k].service_type = Program.setup[n].service_type
                 /\ registrations[k].name = Program.setup[n].name)
    /\ [][\A t \in Threads :
            ( /\ Hands({"resolve", "try_resolve"})
              /\ log'[Len(log')].thread = t )
            => registrations[log'[Len(log')].key].name = op[t].name]_vars

\* This step closes scope handle h.
Closes(h) ==
    /\ h \in 1 .. Len(scopes)
    /\ scopes[h].state = "open"
    /\ scopes'[h].state = "closed"

\* C21: when a scope handle is closed, after the resolves made through it
\* returned or failed, its cache is empty, and the caches of the other
\* handles and the singleton cache are as they were.
C21_ScopeCloseReleases ==
    [][\A h \in 1 .. MaxScopes :
         Closes(h)
         => /\ scopes'[h].cache = EmptyDict
            /\ Len(scopes') = Len(scopes)
            /\ \A g \in 1 .. Len(scopes) : g # h => scopes'[g] = scopes[g]
            /\ singletons' = singletons
      ]_vars

\* A handle through which one resolve returned and one failed is closed and
\* its cache is empty, while another handle and the singleton cache hold
\* their entries.
C21_Witness ==
    \E h, g \in 1 .. Len(scopes) :
        /\ h # g
        /\ scopes[h].state = "closed"
        /\ scopes[h].cache = EmptyDict
        /\ \E i, j \in Events :
               /\ log[i].scope = h /\ log[i].out = "ret" /\ i <= scopes[h].ended
               /\ log[j].scope = h /\ log[j].out = "exc" /\ j <= scopes[h].ended
        /\ scopes[g].cache # EmptyDict
        /\ singletons # EmptyDict

\* C22: two resolves of a Transient identity through scope handles, the
\* same handle or not, return two distinct instances.
C22_TransientNeverCached ==
    \A i, j \in Events :
        ( /\ i < j
          /\ Returned(i, {"scope_resolve"}, TRANSIENT)
          /\ Returned(j, {"scope_resolve"}, TRANSIENT)
          /\ log[i].key = log[j].key )
        => log[i].v.obj # log[j].v.obj

\* C23: while an identity's registration is one made by register_instance,
\* a resolve of it is answered by the lookup alone, without a constructor
\* or provider running, and returns the registered instance passed through
\* the interceptors.
C23_FixedInstance ==
    [][\A t \in Threads :
         ( /\ Hands({"resolve", "try_resolve"})
           /\ log'[Len(log')].thread = t
           /\ registrations[log'[Len(log')].key].instance # None )
         => /\ log'[Len(log')].v.obj = registrations[log'[Len(log')].key].instance
            /\ log'[Len(log')].v.marks = interceptors
            /\ Head(stack[t]).pc = "enter"
            /\ Len(stack[t]) = 1
            /\ heap' = heap
      ]_vars

\* After a second register_instance for the identity, a resolve has
\* returned the second instance with the interceptor's marker.
C23_Witness ==
    \E k, i \in Events :
        /\ k < i
        /\ log[k].kind = "register"
        /\ registrations[log[k].key].instance = "ext2"
        /\ Returned(i, {"resolve"}, SINGLETON)
        /\ log[i].key = log[k].key
        /\ log[i].v = [obj |-> "ext2", marks |-> <<"f">>]
        /\ heap = <<>>

\* The last register_* call made for the key after the setup (0: none).
LastRegistered(key) ==
    LET regs == {k \in Events : log[k].kind = "register" /\ log[k].key = key}
    IN  IF regs = {} THEN 0 ELSE CHOOSE k \in regs : \A m \in regs : m <= k

\* C27: a resolve of an identity that was registered again returns what
\* the newest registration produces: its instance, or an object of its
\* class or provider constructed after that registration was made.
C27_ResolveFollowsReregistration ==
    [][\A t \in Threads :
         ( /\ Hands({"resolve", "try_resolve"})
           /\ log'[Len(log')].thread = t
           /\ LastRegistered(log'[Len(log')].key) > 0 )
         => LET e == log'[Len(log')]
                reg == registrations[e.key]
            IN  IF reg.instance # None
                THEN e.v.obj = reg.instance
                ELSE \E n \in 1 .. Len(heap') :
                         /\ e.v.obj = Obj(n)
                         /\ heap'[n].at >= LastRegistered(e.key)
                         /\ heap'[n].cls = IF reg.factory # None THEN reg.factory
                                           ELSE reg.implementation_type
      ]_vars

\* The keys in flight on thread t, oldest first (the stack's head is the
\* newest frame).
ResolutionOrder(t) == [j \in 1 .. Len(stack[t]) |-> stack[t][Len(stack[t]) + 1 - j].key]

\* The part of a sequence from the first occurrence of x.
FromFirst(seq, x) ==
    LET first == CHOOSE j \in 1 .. Len(seq) :
                     seq[j] = x /\ \A m \in 1 .. j - 1 : seq[m] # x
    IN  SubSeq(seq, first, Len(seq))

\* Thread t has a CircularDependencyException on its way to the frame that
\* asked for the repeated identity.
CycleReported(t) ==
    /\ pend[t].kind = "exc"
    /\ pend[t].v.cls = CDE
    /\ stack[t] # <<>>
    /\ Head(stack[t]).pc = "await"

\* C28: the cycle of a CircularDependencyException lists the identities in
\* resolution order from the first occurrence of the repeated identity and
\* ends with that identity again.
C28_CycleReportOrdered ==
    \A t \in Threads :
        CycleReported(t)
        => LET cycle == pend[t].v.msg[2]
               again == cycle[Len(cycle)]
           IN  cycle = Append(FromFirst(ResolutionOrder(t), again), again)

\* The owner at the top of thread t's stack is handed the failure of the
\* dependency it asked for.
DependencyFailedNow(t) ==
    /\ stack[t] # <<>>
    /\ Head(stack[t]).pc = "await"
    /\ pend[t].kind = "exc"
    /\ stack'[t] # stack[t]

\* The parameter the owner at the top of thread t's stack is resolving.
AwaitedParam(t) ==
    Program.sig[Head(stack[t]).registration.implementation_type][Head(stack[t]).idx]

\* C29: an owner goes on with a parameter's default only when the
\* parameter's type is not registered; the failure of a registered
\* dependency (a cycle aside) ends the owner's resolution.
C29_DefaultOnlyWhenUnregistered ==
    [][\A t \in Threads :
         ( /\ DependencyFailedNow(t)
           /\ pend[t].v.cls # CDE
           /\ In(GetKey(AwaitedParam(t).annotation, None), registrations) )
         => /\ Len(stack'[t]) < Len(stack[t])
            /\ \/ pend'[t].kind = "exc"
               \/ /\ Len(log') = Len(log) + 1
                  /\ log'[Len(log')].out # "ret"
      ]_vars

\* The failure the owner's resolution ends with in this step: handed to the
\* frame below or to DependencyScope.resolve, or to the caller.
EndsWith(t) ==
    IF Len(stack[t]) > 1 \/ op[t].kind = "scope_resolve"
    THEN pend'[t]
    ELSE [kind |-> log'[Len(log')].out, v |-> log'[Len(log')].v]

\* C30: when a parameter without a default is of an unregistered type, the
\* owner's resolution ends there with a DependencyResolutionException that
\* names the owner's class and the parameter and its type (try_resolve
\* gives None); the owner is not constructed and no cache changes.
C30_UnsatisfiedDependency ==
    [][\A t \in Threads :
         ( /\ DependencyFailedNow(t)
           /\ pend[t].v.cls = DRE
           /\ pend[t].v.msg[1] = "Service not registered"
           /\ ~AwaitedParam(t).has_default )
         => /\ stack'[t] = Tail(stack[t])
            /\ UNCHANGED <<heap, singletons, scoped_instances, scopes>>
            /\ IF Len(stack[t]) = 1 /\ op[t].kind = "try_resolve"
               THEN EndsWith(t).kind = "absent"
               ELSE /\ EndsWith(t).kind = "exc"
                    /\ EndsWith(t).v.cls = DRE
                    /\ EndsWith(t).v.msg =
                         <<"Failed to create",
                           Head(stack[t]).registration.implementation_type,
                           <<"Cannot resolve parameter", AwaitedParam(t).name,
                             AwaitedParam(t).annotation>>>>
      ]_vars

\* A resolve of a class with a parameter of an unregistered type and no
\* default has failed naming the class and the parameter, and no object of
\* the class exists.
C30_Witness ==
    \E i \in Events :
        /\ log[i].kind = "resolve"
        /\ log[i].out = "exc"
        /\ log[i].v.msg[1] = "Failed to create"
        /\ log[i].v.msg[2] = log[i].key[1]
        /\ log[i].v.msg[3][1] = "Cannot resolve parameter"
        /\ ~In(GetKey(log[i].v.msg[3][3], None), registrations)
        /\ \A n \in Objects : heap[n].key # log[i].key

\* The number of positions of a sequence that hold v.
Occurrences(seq, v) == Cardinality({i \in 1 .. Len(seq) : seq[i] = v})

\* s holds the values in the order of the strategy.
IsSortedBy(s, values, strategy) ==
    /\ Len(s) = Len(values)
    /\ \A v \in 1 .. MaxFace : Occurrences(s, v) = Occurrences(values, v)
    /\ \A i, j \in 1 .. Len(s) :
           i < j => IF strategy = DESCENDING THEN s[i] >= s[j] ELSE s[i] <= s[j]

C25_DiceConfigurationValidation ==
    dice_config # <<>>
    => LET a == dice_args[1]
           r == dice_config[1]
       IN  /\ r.raised <=> \/ a.count <= 0
                            \/ a.sides <= 0
                            \/ a.min_value >= a.max_value
                            \/ a.min_value < 1
                            \/ a.max_value > a.sides
           /\ r.raised => r.error = "ValueError" /\ r.config = <<>>
           /\ ~r.raised
              => /\ r.config = <<a>>
                 /\ 1 <= a.min_value
                 /\ a.min_value < a.max_value
                 /\ a.max_value <= a.sides
                 /\ a.count >= 1

\* Arguments that break only the last rule, max_value > sides, are refused.
C25_Witness ==
    /\ dice_config # <<>>
    /\ dice_config[1].raised
    /\ dice_args[1].count >= 1
    /\ dice_args[1].sides >= 1
    /\ 1 <= dice_args[1].min_value
    /\ dice_args[1].min_value < dice_args[1].max_value
    /\ dice_args[1].max_value > dice_args[1].sides

\* Every metric added so far is stamped inside the window that ends now.
AllInsideWindow ==
    \A i \in 1 .. Len(added) :
        added[i].timestamp >= now - WindowSize /\ added[i].timestamp <= now

\* The calls of add_metric made under a name.
AddedUnder(name) == {i \in 1 .. Len(added) : added[i].name = name}

\* The total of the values added under a name by the first i calls.
RECURSIVE TotalAdded(_, _)
TotalAdded(name, i) ==
    IF i = 0 THEN 0
    ELSE TotalAdded(name, i - 1) + (IF added[i].name = name THEN added[i].value ELSE 0)

\* C26: when every metric added is stamped inside the window,
\* get_current_metrics returns every added metric, in the order added, and
\* get_aggregated_metrics reports, for exactly the names added, the number
\* of metrics added under the name, their total and the last value added.
C26_MetricAggregation ==
    AllInsideWindow
    => LET current == GetCurrentMetrics(metrics_history, now)
           aggregated == GetAggregatedMetrics(metrics_history)
       IN  /\ Len(current) = Len(added)
           /\ \A i \in 1 .. Len(added) : current[i] = ToDict(added[i])
           /\ \A name \in MetricNames :
                  /\ In(name, aggregated) <=> AddedUnder(name) # {}
                  /\ In(name, aggregated)
                     => /\ aggregated[name].count = Cardinality(AddedUnder(name))
                        /\ aggregated[name].sum = TotalAdded(name, Len(added))
                        /\ \E i \in AddedUnder(name) :
                               /\ \A j \in AddedUnder(name) : j <= i
                               /\ aggregated[name].latest = added[i].value

\* Three metrics, two of one name with different values and one of
\* another, added over a minute and all still inside the window, one of
\* them stamped exactly at the cutoff.
C26_Witness ==
    /\ Len(added) = MaxMetrics
    /\ AllInsideWindow
    /\ now > 0
    /\ \E i \in 1 .. Len(added) : added[i].timestamp = now - WindowSize
    /\ \E i, j \in 1 .. Len(added) :
           /\ i < j
           /\ added[i].name = added[j].name
           /\ added[i].value # added[j].value
    /\ \E i, j \in 1 .. Len(added) : added[i].name # added[j].name

\* The frames of a thread that are inside `with self._lock`.
Holding(t) ==
    Cardinality({i \in 1 .. Len(stack[t]) :
                    stack[t][i].pc \in {"params", "await", "construct"}})
    + (IF op[t].kind = "register_instance" THEN 1 ELSE 0)

\* C31: the lock is held exactly by the one thread that is inside the
\* locked part of _resolve_internal, as many times as it has frames there
\* (it re-enters for each dependency of the chain and gives every level
\* back, on return and on failure), so a held lock always becomes free
\* again and every call that has begun completes.
C31_DeadlockFreedom ==
    /\ [](\A t \in Threads :
             /\ lockOwner = t => lockCount = Holding(t) /\ lockCount > 0
             /\ lockOwner # t => Holding(t) = 0)
    /\ [](lockOwner = None <=> lockCount = 0)
    /\ (lockOwner # None) ~> (lockOwner = None)
    /\ \A t \in Threads : (op[t].kind # "idle") ~> (op[t].kind = "idle")

\* A thread has re-entered the lock for a dependency while another thread's
\* call waits for it.
C31_Witness ==
    \E t, u \in Threads :
        /\ t # u
        /\ lockOwner = t
        /\ lockCount >= 2
        /\ stack[u] # <<>>
        /\ Head(stack[u]).pc = "enter"
        /\ ~OnPath(Head(stack[u]).key, Head(stack[u]).path)

\* Thread t is inside the constructor or provider of a singleton.
ConstructingSingleton(t) ==
    /\ stack[t] # <<>>
    /\ Head(stack[t]).pc = "construct"
    /\ Head(stack[t]).registration.lifecycle = SINGLETON

\* Thread u is about to first-construct a singleton that no frame of t is
\* resolving.
BeginsUnrelated(u, t) ==
    /\ Len(stack[u]) = 1
    /\ Head(stack[u]).pc = "enter"
    /\ In(Head(stack[u]).key, registrations)
    /\ registrations[Head(stack[u]).key].lifecycle = SINGLETON
    /\ ~In(Head(stack[u]).key, singletons)
    /\ \A i \in 1 .. Len(stack[t]) : stack[t][i].key # Head(stack[u]).key

\* C32: while a thread is inside the constructor or provider of a
\* singleton, another thread that comes to first-construct an unrelated
\* singleton can go on at once: it does not wait for the first
\* construction to end.
C32_UnrelatedNotSerialized ==
    \A t, u \in Threads :
        (t # u /\ ConstructingSingleton(t) /\ BeginsUnrelated(u, t))
        => ENABLED Enter(u)

\* The table holds an instance for the key that the singleton cache does
\* not hold.
HalfRegistered(key) ==
    /\ In(key, registrations)
    /\ registrations[key].instance # None
    /\ ~In(key, singletons) \/ singletons[key] # registrations[key].instance

\* Thread u is at the locked reads of _resolve_internal.
AboutToRead(u) ==
    /\ stack[u] # <<>>
    /\ Head(stack[u]).pc = "enter"
    /\ ~OnPath(Head(stack[u]).key, Head(stack[u]).path)

\* C33: the table entry of register_instance and the cached instance are
\* written under one hold of the lock: the new entry stands beside a cache
\* without its instance only while the registering thread holds the lock,
\* and then no other thread is in, or can enter, the locked reads of
\* resolve; the cache is never ahead of the table.
C33_AtomicRegistration ==
    /\ \A key \in AllKeys :
           HalfRegistered(key)
           => \E t \in Threads :
                  /\ op[t].kind = "register_instance"
                  /\ GetKey(op[t].service_type, op[t].name) = key
                  /\ lockOwner = t
                  /\ \A u \in Threads \ {t} :
                         /\ Holding(u) = 0
                         /\ AboutToRead(u) => ~ENABLED Enter(u)
    /\ \A t \in Threads :
           op[t].kind = "register_instance"
           => HalfRegistered(GetKey(op[t].service_type, op[t].name))
              \/ singletons[GetKey(op[t].service_type, op[t].name)]
                   = registrations[GetKey(op[t].service_type, op[t].name)].instance

\* register_instance has written the table entry for an identity whose
\* singleton is cached, and a resolve of that identity by another thread
\* waits at the lock.
C33_Witness ==
    \E t, u \in Threads, key \in AllKeys :
        /\ t # u
        /\ op[t].kind = "register_instance"
        /\ HalfRegistered(key)
        /\ In(key, singletons)
        /\ AboutToRead(u)
        /\ Head(stack[u]).key = key

\* The identity thread t asked for.
Requested(t) == GetKey(op[t].service_type, op[t].name)

\* C34: a frame ends with CircularDependencyException only for an identity
\* that lies on a cycle of the dependency graph reachable from the identity
\* the call asked for, and no call fails with it otherwise; the graph in
\* which A needs B and C and both need D has no cycle, and every resolve of
\* A returns an instance.
C34_NoFalsePositiveCycles ==
    /\ [][\A t \in Threads :
            ( /\ pend[t].kind = "none"
              /\ pend'[t].kind = "exc"
              /\ pend'[t].v.cls = CDE )
            => /\ OnCycle(Head(stack[t]).key)
               /\ Head(stack[t]).key \in Reach({Requested(t)}, Cardinality(AllKeys))]_vars
    /\ [](\A i \in 1 .. Len(log) :
             (log[i].out = "exc" /\ log[i].v.cls = CDE) => OnCycle(log[i].key))
    /\ [](\A t \in Threads :
             (prog = "diamond" /\ pend[t].kind # "none") => pend[t].kind = "ret")
    /\ [](\A i \in 1 .. Len(log) :
             (prog = "diamond" /\ log[i].kind = "resolve") => log[i].out = "ret")

\* A has been built from a B and a C that were both given the one D.
C34_Witness ==
    /\ prog = "diamond"
    /\ \E i \in 1 .. Len(log) : log[i].kind = "resolve" /\ log[i].out = "ret"
    /\ \E a, b, c, d \in 1 .. Len(heap) :
           /\ heap[a].cls = "A" /\ heap[b].cls = "B"
           /\ heap[c].cls = "C" /\ heap[d].cls = "D"
           /\ heap[a].kwargs = <<Val(Obj(b)), Val(Obj(c))>>
           /\ heap[b].kwargs = <<Val(Obj(d))>>
           /\ heap[c].kwargs = <<Val(Obj(d))>>

\* A cycle of the dependency graph can be reached from the key.
CycleReachable(key) == \E k \in Reach({key}, Cardinality(AllKeys)) : OnCycle(k)

\* Everything the key depends on is registered, none of it raises, and no
\* interceptor raises.
Constructible(key) ==
    /\ \A k \in Reach({key}, Cardinality(AllKeys)) :
           /\ In(k, registrations)
           /\ registrations[k].factory # "raises"
           /\ registrations[k].implementation_type \notin Program.raises
    /\ \A i \in 1 .. Len(interceptors) : interceptors[i] # "bad"

\* C35: every resolve ends, with no more frames than there are identities
\* and one; on an acyclic graph of registered identities whose constructors
\* succeed it returns an instance, and on a graph with a cycle reachable
\* from the requested identity, nothing of it cached, it fails.
C35_ResolutionTerminates ==
    /\ \A t \in Threads :
           (op[t].kind \in {"resolve", "try_resolve"}) ~> (op[t].kind = "idle")
    /\ [](\A t \in Threads : Len(stack[t]) <= Cardinality(AllKeys) + 1)
    /\ [][\A t \in Threads :
            ( /\ op[t].kind = "resolve"
              /\ op'[t].kind = "idle"
              /\ ~CycleReachable(Requested(t))
              /\ Constructible(Requested(t)) )
            => log'[Len(log')].out = "ret"]_vars
    /\ [](\A i \in 1 .. Len(log) :
             ( /\ log[i].kind = "resolve"
               /\ CycleReachable(log[i].key)
               /\ NothingCached(log[i].key) )
             => log[i].out = "exc")

\* Event i is a resolve of a cached lifecycle that an interceptor failed.
InterceptionFailed(i) ==
    /\ log[i].kind = "resolve"
    /\ log[i].lifecycle \in {SINGLETON, SCOPED}
    /\ log[i].out = "exc"
    /\ log[i].v.cls = Raw
    /\ log[i].v.msg[1] = "interceptor error"

\* The objects constructed for the key of event i, by its thread when the
\* identity is Scoped.
ConstructedFor(i) ==
    {n \in Constructed(log[i].key, log[i].lifecycle) :
        log[i].lifecycle = SCOPED => heap[n].thread = log[i].thread}

\* C36: when an interceptor raises during a resolve of a Singleton or
\* Scoped identity, the caller gets the failure but the one instance
\* constructed for the identity is in the cache, and every later resolve of
\* the identity (by the same thread, for Scoped) that returns gives that
\* instance, constructed before the failure; the constructor or provider
\* does not run again.
C36_CacheWritePrecedesInterception ==
    \A i \in 1 .. Len(log) :
        InterceptionFailed(i)
        => /\ \E n \in ConstructedFor(i) :
                  /\ ConstructedFor(i) = {n}
                  /\ heap[n].at < i
                  /\ InSomeCache(Obj(n))
                  /\ \A j \in i + 1 .. Len(log) :
                         ( /\ log[j].kind = "resolve"
                           /\ log[j].key = log[i].key
                           /\ log[j].lifecycle = SCOPED => log[j].thread = log[i].thread )
                         => \/ log[j].out = "ret" /\ log[j].v.obj = Obj(n)
                            \/ InterceptionFailed(j)

\* The first resolve of a singleton failed in an interceptor, which ran
\* after the constructor, and the next resolve returned the instance that
\* call had constructed.
C36_Witness ==
    \E i, j \in 1 .. Len(log), n \in 1 .. Len(heap) :
        /\ i < j
        /\ InterceptionFailed(i)
        /\ log[i].lifecycle = SINGLETON
        /\ heap[n].key = log[i].key
        /\ heap[n].at = i - 1
        /\ log[j].kind = "resolve"
        /\ log[j].key = log[i].key
        /\ log[j].out = "ret"
        /\ log[j].v.obj = Obj(n)

\* The least whole number of parts of size d that cover n.
Ceiling(n, d) == CHOOSE q \in 0 .. n : q * d >= n /\ (q - 1) * d < n

\* _execute_simulation_batches has run all its batches.
BatchesOver == sim_pc \in {"finalize", "returned"}

\* C37: for iterations >= 1 and 1 <= batch_size <= iterations, throughout
\* _execute_simulation_batches total_battles is the number of battles executed
\* and len(battle_history) is min(total_battles, 1000); when the batches are
\* over, ceil(iterations / batch_size) batches have run and total_battles is
\* iterations, also when batch_size does not divide iterations.
C37_BatchAccounting ==
    (configuration # <<>> /\ Validated(configuration[1])) =>
        /\ total_battles = executed
        /\ Len(battle_history) = Min(total_battles, HistoryLimit)
        /\ BatchesOver =>
              /\ batch_num = Ceiling(configuration[1].iterations,
                                     configuration[1].batch_size)
              /\ total_battles = configuration[1].iterations

\* The batches are over for a run of more than 1000 battles whose batch_size
\* does not divide its iterations.
C37_Witness ==
    /\ configuration # <<>>
    /\ BatchesOver
    /\ configuration[1].iterations % configuration[1].batch_size # 0
    /\ total_battles > HistoryLimit
    /\ batch_num = 2

\* The places in `events` of the given callback to the given observer.
Calls(observer, callback) ==
    {i \in 1 .. Len(events) :
        events[i].observer = observer /\ events[i].callback = callback}

Observing == {observers[i] : i \in 1 .. Len(observers)}

\* run_simulation has ended, by a return or by an exception.
RunEnded == sim_pc \in {"returned", "raised"}

\* Every observer is told of the start once the run is under way, and before
\* any battle it is told of.
StartedFirst ==
    \A o \in Observing :
        /\ (sim_pc # "idle" /\ configuration # <<>>) =>
              Cardinality(Calls(o, "on_simulation_started")) = 1
        /\ \A i \in Calls(o, "on_battle_completed") :
              \E j \in Calls(o, "on_simulation_started") : j < i

\* The k-th on_batch_completed an observer receives is (k, total), it comes
\* after the observer was told of every battle of batches 1..k, and when the
\* batches are over there are `total` of them.
BatchesInOrder ==
    \A o \in Observing :
        LET batches == Calls(o, "on_batch_completed")
            total == Ceiling(configuration[1].iterations, configuration[1].batch_size)
            Nth(i) == Cardinality({j \in batches : j <= i})
        IN  /\ \A i \in batches :
                  /\ events[i].batch_number = Nth(i)
                  /\ events[i].total_batches = total
                  /\ Cardinality({j \in Calls(o, "on_battle_completed") : j < i})
                         = Min(Nth(i) * configuration[1].batch_size,
                               configuration[1].iterations)
            /\ (BatchesOver \/ (RunEnded /\ batch_num = total_batches /\ batch_num > 0))
                  => Cardinality(batches) = total

\* on_simulation_completed comes at most once, after the last batch's
\* on_batch_completed, and not at all in a run that raises.
CompletedLast ==
    \A o \in Observing :
        /\ Cardinality(Calls(o, "on_simulation_completed")) <= 1
        /\ \A i \in Calls(o, "on_simulation_completed") :
              /\ sim_pc = "returned"
              /\ \A j \in 1 .. Len(events) : events[j].observer = o => j <= i
              /\ \E j \in Calls(o, "on_batch_completed") :
                    events[j].batch_number = events[j].total_batches
        /\ sim_pc = "returned" => Cardinality(Calls(o, "on_simulation_completed")) = 1

\* A run whose batches have all been executed ends with on_simulation_completed
\* delivered to every observer.
CompletedDelivered ==
    (RunEnded /\ configuration # <<>> /\ batch_num = total_batches /\ batch_num > 0) =>
        \A o \in Observing : Cardinality(Calls(o, "on_simulation_completed")) = 1

\* The ordering of the callbacks, without the delivery of on_simulation_completed.
CallbackOrdering == StartedFirst /\ BatchesInOrder /\ CompletedLast

\* C38: in run_simulation every observer receives on_simulation_started before
\* any on_battle_completed; on_batch_completed(k, total) is delivered for
\* k = 1..total in increasing order, each after all battles of batch k;
\* on_simulation_completed is delivered exactly once, after the last batch, and
\* is not delivered when the run fails.
C38_ObserverEventOrdering ==
    /\ CallbackOrdering
    /\ CompletedDelivered

\* The _report_loop threads that have not returned.
ActiveLoops == {l \in 1 .. Len(loops) : loops[l] # "exited"}

\* The last call made on the reporter is stop().
Stopped ==
    /\ reporter_calls # <<>>
    /\ reporter_calls[Len(reporter_calls)] = "stop"

\* Once stop() has been called with no later start(), every loop exits.
StoppedLoopsExit == Stopped ~> (ActiveLoops = {} \/ ~Stopped)

\* C39: after any sequence of start() and stop() calls at most one
\* _report_loop thread of a MetricsReporter is active, and once stop() has been
\* called with no later start() the loop eventually exits.
C39_AtMostOneReportLoop ==
    /\ [](Cardinality(ActiveLoops) <= 1)
    /\ StoppedLoopsExit

====
